---- MODULE Spec2Model ----
(***************************************************************************)
(* Media-variant pipeline of app/media/router.py: upload_media and the     *)
(* helpers it calls (generate_filename, save_file, create_image_variants,  *)
(* create_video_thumbnail_variants, create_thumbnail_variants) together    *)
(* with MediaRepository.create of app/media/repository.py.                 *)
(*                                                                         *)
(* A file name is a sequence of lexemes.  The lexemes are chosen so that   *)
(* two different lexeme sequences stand for two different character        *)
(* strings ("thumbnail" is the two lexemes "thumb","nail" because "thumb"  *)
(* is a prefix of it; a uuid is one lexeme: it has a fixed length and      *)
(* holds neither "_" nor ".").  String concatenation is \o.                *)
(*                                                                         *)
(* The upload directory is the function disk: name -> content, whose       *)
(* domain is the directory listing.  Every file operation is one step.     *)
(* upload_media is a coroutine of the single event loop uvicorn.run        *)
(* starts (app/main.py): a request keeps the loop from one await to the    *)
(* next, and the only await that suspends it is "await file.read()" in     *)
(* save_file; loop names the request that holds the event loop.            *)
(* Every file operation may fail (an OSError from the disk, a decoder      *)
(* error from the imaging library); a write that fails after its target    *)
(* was opened leaves a truncated file.                                     *)
(***************************************************************************)
EXTENDS Integers, Sequences, FiniteSets, TLC

(* ---------------------------- bounds ---------------------------------- *)
\* number of upload requests (run slots) of a behaviour
NumRuns == 2
\* number of injected faults (failing file / decoder / removal operations)
\* in one behaviour of a single request
MaxFaults == 3
\* the same, in one behaviour of concurrent requests
MaxConcFaults == 1
\* greatest frame count a video container reports
MaxFrames == 3
\* greatest width and height of a small source image
MaxDim == 12
\* greatest width and height of a small bounding box
MaxBox == 6

Runs == 1..NumRuns

None == << >>

(* ------------------------- program constants -------------------------- *)
ALLOWED_IMAGE_TYPES ==
    {"image/jpeg", "image/jpg", "image/png", "image/webp", "image/gif"}
ALLOWED_VIDEO_TYPES ==
    {"video/mp4", "video/avi", "video/mov", "video/wmv", "video/webm"}
ALLOWED_TYPES == ALLOWED_IMAGE_TYPES \cup ALLOWED_VIDEO_TYPES
\* MAX_FILE_SIZE, in MiB (file sizes of the model are in MiB)
MAX_FILE_SIZE == 100

\* the keys of IMAGE_SIZES in declaration order (a Python dict iterates in
\* insertion order)
\* a variant of IMAGE_SIZES: 'original' is the first key of the dict
IMAGE_SIZES_OriginalFirst ==
    << <<"original">>, <<"thumb">>, <<"medium">>, <<"large">> >>

\* the keys of IMAGE_SIZES, in the order of the dict literal
IMAGE_SIZES == << <<"thumb">>, <<"medium">>, <<"large">>, <<"original">> >>

\* a variant of PhotoSizes: the loop also skips 'large'
PhotoSizes_SkipsLarge ==
    SelectSeq(IMAGE_SIZES, LAMBDA s : s \notin {<<"original">>, <<"large">>})

\* the sizes create_image_variants resizes: IMAGE_SIZES without 'original'
PhotoSizes == SelectSeq(IMAGE_SIZES, LAMBDA s : s # <<"original">>)

(* ------------------------------ strings ------------------------------- *)
\* str.lower() on one lexeme
LowerLexeme(x) ==
    CASE x = "JPG" -> "jpg"
      [] x = "PNG" -> "png"
      [] x = "MP4" -> "mp4"
      [] OTHER -> x

Lower(s) == [i \in 1..Len(s) |-> LowerLexeme(s[i])]

\* str.rfind('.') : the greatest index holding ".", 0 when there is none
RFindDot(s) ==
    LET D == {i \in 1..Len(s) : s[i] = "."}
    IN  IF D = {} THEN 0 ELSE CHOOSE i \in D : \A j \in D : j <= i

\* pathlib.PurePath.suffix : the part from the last dot on, unless the dot
\* is the first or the last character of the name
Suffix(s) ==
    LET i == RFindDot(s)
    IN  IF 1 < i /\ i < Len(s) THEN SubSeq(s, i, Len(s)) ELSE << >>

IsPrefix(p, s) == Len(p) <= Len(s) /\ SubSeq(s, 1, Len(p)) = p

(* --------------------------- file names -------------------------------- *)
\* generate_filename: the extension part
file_extension_of(original_filename) == Lower(Suffix(original_filename))

\* a variant of temp_filename_of: the temporary upload has no "_temp" tag
temp_filename_of_NoTag(base_filename, file_extension) ==
    <<base_filename>> \o file_extension

temp_filename_of(base_filename, file_extension) ==
    <<base_filename, "_", "temp">> \o file_extension

original_filename_of(base_filename, file_extension) ==
    <<base_filename, "_", "original">> \o file_extension

variant_filename_of(base_filename, size_name, file_extension) ==
    <<base_filename, "_">> \o size_name \o file_extension

video_filename_of(base_filename, file_extension) ==
    <<base_filename>> \o file_extension

\* a variant of temp_thumbnail_path_of: one name for every request
temp_thumbnail_path_of_Shared(base_filename) ==
    <<"temp", "_", "thumb", "nail", ".", "jpg">>

temp_thumbnail_path_of(base_filename) ==
    <<base_filename, "_", "temp", "_", "thumb", "nail", ".", "jpg">>

\* a variant of thumbnail_variant_filename_of: named like a photo variant
thumbnail_variant_filename_of_NoTag(base_filename, size_name) ==
    <<base_filename, "_">> \o size_name \o <<".", "jpg">>

thumbnail_variant_filename_of(base_filename, size_name) ==
    <<base_filename, "_", "thumb", "nail", "_">> \o size_name \o <<".", "jpg">>

(* ----------------------------- the disk -------------------------------- *)
Exists(d, name) == name \in DOMAIN d

Put(d, name, content) ==
    [n \in (DOMAIN d) \cup {name} |-> IF n = name THEN content ELSE d[n]]

Remove(d, name) == [n \in (DOMAIN d) \ {name} |-> d[n]]

Rename(d, src, dst) == Remove(Put(d, dst, d[src]), src)

Partial == <<"partial">>

\* the content of a resized, re-encoded variant of the image held by c
Resized(c, size_name) == <<"resized">> \o size_name \o c

\* the JPEG written from the decoded middle frame of the video held by c
FrameJpeg(c) == <<"frame">> \o c

(* ------------------------------- resize ------------------------------- *)
\* IMAGE_SIZES: the bounding box of a size name
IMAGE_DIMENSIONS(size_name) ==
    CASE size_name = <<"thumb">> -> <<300, 300>>
      [] size_name = <<"medium">> -> <<800, 800>>
      [] size_name = <<"large">> -> <<1200, 1200>>

Max(a, b) == IF a >= b THEN a ELSE b

\* a variant of thumbnail_size: the test that keeps a small image as it is
\* is missing
thumbnail_size_Upscales(w, h, x, y) ==
    IF x * h >= w * y
    THEN LET f == (y * w) \div h
             c == IF (y * w) % h = 0 THEN f ELSE f + 1
             n == IF (w * y - f * h) <= (c * h - w * y) THEN f ELSE c
         IN  <<Max(n, 1), y>>
    ELSE LET f == (x * h) \div w
             c == IF (x * h) % w = 0 THEN f ELSE f + 1
             n == IF f = 0 \/ (x * h - w * f) * c <= (w * c - x * h) * f
                  THEN f ELSE c
         IN  <<x, Max(n, 1)>>

\* Image.thumbnail((x, y)) on an image of size (w, h), as the imaging
\* library computes the new size (the library version is the one that has
\* Image.Resampling, which line 82 uses):
\*     if x >= width and y >= height: return
\*     aspect = width / height
\*     if x / y >= aspect:
\*         x = round_aspect(y * aspect, key=lambda n: abs(aspect - n / y))
\*     else:
\*         y = round_aspect(x / aspect,
\*                 key=lambda n: 0 if n == 0 else abs(aspect - x / n))
\* with round_aspect(number, key) =
\*     max(min(floor(number), ceil(number), key=key), 1).
\* f and c are floor and ceil of the number; the comparison of the two keys
\* is written without division.  min() returns floor when the keys tie.
thumbnail_size(w, h, x, y) ==
    IF x >= w /\ y >= h THEN <<w, h>>
    ELSE IF x * h >= w * y
    THEN LET f == (y * w) \div h
             c == IF (y * w) % h = 0 THEN f ELSE f + 1
             n == IF (w * y - f * h) <= (c * h - w * y) THEN f ELSE c
         IN  <<Max(n, 1), y>>
    ELSE LET f == (x * h) \div w
             c == IF (x * h) % w = 0 THEN f ELSE f + 1
             n == IF f = 0 \/ (x * h - w * f) * c <= (w * c - x * h) * f
                  THEN f ELSE c
         IN  <<x, Max(n, 1)>>

\* a variant of resize_image_size: Image.resize(size) in place of
\* Image.thumbnail(size)
resize_image_size_Stretches(image_size, size) == size

\* resize_image: the size of the image it returns for a source of size
\* image_size and the bounding box size (the conversion of RGBA to RGB
\* does not change the size)
resize_image_size(image_size, size) ==
    thumbnail_size(image_size[1], image_size[2], size[1], size[2])

\* the sizes of the source images resize_image is applied to: all small
\* ones and three camera sizes
ImageSizes ==
    ((1..MaxDim) \X (1..MaxDim))
        \cup { <<4000, 3000>>, <<3000, 4000>>, <<1920, 1080>> }

\* the bounding boxes: all small ones and the boxes of IMAGE_SIZES
BoundingBoxes ==
    ((1..MaxBox) \X (1..MaxBox))
        \cup { IMAGE_DIMENSIONS(PhotoSizes[k]) : k \in 1..Len(PhotoSizes) }

\* no call of resize_image yet
NoImage == [image_size |-> <<0, 0>>, size |-> <<0, 0>>, out |-> <<0, 0>>]

(* ------------------------- ordered dictionaries ----------------------- *)
(* ------------------------ encoding of a variant ------------------------ *)
\* the colour modes Pillow gives the decodable images of the allowed types:
\* JPEG opens as L, RGB or CMYK; PNG as 1, L, LA, P, RGB, RGBA or I;16;
\* WEBP as RGB or RGBA; GIF as P
ImageModes == {"1", "L", "LA", "P", "RGB", "RGBA", "CMYK", "I;16"}

\* resize_image, lines 78-79: only mode RGBA is converted, to RGB; thumbnail
\* and copy keep the mode
resize_image_mode(mode) == IF mode = "RGBA" THEN "RGB" ELSE mode

\* a variant of save_parameters: '.png' is not tested and falls to JPEG
save_parameters_PngFallsBack(file_extension) ==
    LET e == Lower(file_extension) IN
    IF e = <<".", "webp">>
    THEN [format |-> "WEBP", quality |-> {85}, optimize |-> TRUE]
    ELSE [format |-> "JPEG", quality |-> {85}, optimize |-> TRUE]

\* lines 113-121: the keyword arguments of resized_img.save for this
\* extension; quality is the set of the values passed (none for PNG)
save_parameters(file_extension) ==
    LET e == Lower(file_extension) IN
    IF e \in { <<".", "jpg">>, <<".", "jpeg">> }
    THEN [format |-> "JPEG", quality |-> {85}, optimize |-> TRUE]
    ELSE IF e = <<".", "png">>
    THEN [format |-> "PNG", quality |-> {}, optimize |-> TRUE]
    ELSE IF e = <<".", "webp">>
    THEN [format |-> "WEBP", quality |-> {85}, optimize |-> TRUE]
    ELSE [format |-> "JPEG", quality |-> {85}, optimize |-> TRUE]

\* Image.save: the JPEG writer takes the modes 1, L, RGB and CMYK and raises
\* OSError ("cannot write mode P as JPEG") for the others; the PNG writer
\* takes every mode here but CMYK; the WEBP writer converts what it cannot
\* take itself
CanEncode(format, mode) ==
    CASE format = "JPEG" -> mode \in {"1", "L", "RGB", "CMYK"}
      [] format = "PNG" -> mode # "CMYK"
      [] format = "WEBP" -> TRUE

\* the names uploads arrive with, whose extensions reach the encoder
EncodeNames ==
    { <<"a", ".", "JPG">>, <<"b", ".", "jpeg">>, <<"c", ".", "png">>,
      <<"d", ".", "webp">>, <<"e", ".", "gif">>, <<"f", ".", "bmp">>,
      <<"noext">>, <<"arch", ".", "tar", ".", "PNG">> }

(* ---------------- the media table: rows, threads, calls ---------------- *)
\* the greatest number of calls of the database endpoints in a behaviour
MaxCalls == 4

\* the threads of the pool that runs the "def" endpoints
Threads == {1, 2}

\* no row
NoRow ==
    [ id |-> 0, product_id |-> 0, type |-> "", filename |-> << >>,
      file_path |-> << >>, filename_thumb |-> None, filename_medium |-> None,
      filename_large |-> None, filename_original |-> None, sort_order |-> 0 ]

\* no asset
NoAsset == [base |-> "", type |-> "", product_id |-> 0,
            file_extension |-> << >>]

\* no move_order_up has just returned
NoMove == [kind |-> "", media_id |-> 0, before |-> {}]

\* no call has begun
NoLast == [n |-> 0, call |-> NoMove]

\* the locals of a call before it starts.  History: before and after are
\* the table when the call started and returned, files_after the directory
\* listing when it returned, alone tells that no other call took a step
\* meanwhile, prev is the move_order_up that returned just before this
\* call started
IdleCall ==
    [ pc |-> "idle", kind |-> "", media_id |-> 0, product_id |-> 0,
      asset |-> NoAsset, existing |-> NoRow, other |-> NoRow,
      sort_order |-> 0, files |-> << >>, j |-> 0, result |-> "",
      before |-> {}, after |-> {}, files_after |-> {}, alone |-> TRUE,
      prev |-> NoMove ]

\* the locals of upload_multiple_media before the request arrives; names
\* (the file names generated), rm_failed and delete_failed are history
IdleBatch ==
    [ pc |-> "idle", product_id |-> 0, media_type |-> "", files |-> << >>,
      i |-> 0, filename |-> << >>, created_files |-> << >>,
      created_media |-> << >>, j |-> 0, result |-> "", fail_step |-> "",
      names |-> << >>, rm_failed |-> FALSE, delete_failed |-> FALSE ]

\* no variant encoded yet
NoEncode ==
    [ original_filename |-> << >>, file_extension |-> << >>, mode |-> "",
      size_name |-> << >>, converted |-> "", format |-> "", quality |-> {},
      optimize |-> FALSE, variant_filename |-> << >>, saved |-> FALSE ]

\* a Python dict is a sequence of <<key, value>> pairs in insertion order
Keys(dict) == {dict[i][1] : i \in 1..Len(dict)}

\* a variant of Values: the values come last-inserted first
Values_Reversed(dict) == [i \in 1..Len(dict) |-> dict[Len(dict) + 1 - i][2]]

\* dict.values(): the values in insertion order
Values(dict) == [i \in 1..Len(dict) |-> dict[i][2]]

Lookup(dict, key) ==
    LET i == CHOOSE j \in 1..Len(dict) : dict[j][1] = key IN dict[i][2]

\* dict[key] = value : replaces the value of a present key in place, appends
\* a new key
SetItem(dict, key, value) ==
    IF key \in Keys(dict)
    THEN [i \in 1..Len(dict) |->
            IF dict[i][1] = key THEN <<key, value>> ELSE dict[i]]
    ELSE Append(dict, <<key, value>>)

(* ------------------------------ inputs -------------------------------- *)
\* the requests of the model: file.filename, file.content_type, file.size
\* and the bytes of the upload
Uploads ==
    { [filename |-> <<"a", ".", "JPG">>, content_type |-> "image/jpeg",
       size |-> 1, bytes |-> <<"A">>],
      [filename |-> <<"noext">>, content_type |-> "image/jpeg",
       size |-> 1, bytes |-> <<"A">>],
      [filename |-> <<"arch", ".", "tar", ".", "PNG">>,
       content_type |-> "image/png", size |-> 1, bytes |-> <<"P">>],
      [filename |-> <<"clip", ".", "mp4">>, content_type |-> "video/mp4",
       size |-> 2, bytes |-> <<"V">>],
      [filename |-> <<"doc", ".", "txt">>, content_type |-> "text/plain",
       size |-> 1, bytes |-> <<"T">>],
      [filename |-> << >>, content_type |-> "image/png",
       size |-> 1, bytes |-> <<"B">>],
      [filename |-> <<"big", ".", "mp4">>, content_type |-> "video/mp4",
       size |-> 101, bytes |-> <<"V">>] }

\* the requests of a behaviour of concurrent requests: a photo, a video and
\* a rejected upload
ConcUploads ==
    { u \in Uploads : u.filename \in { <<"a", ".", "JPG">>,
                                       <<"clip", ".", "mp4">>,
                                       <<"doc", ".", "txt">> } }

\* the uploads the requests of a behaviour carry
UploadsOf(slots) == IF Cardinality(slots) > 1 THEN ConcUploads ELSE Uploads

NoUpload == [filename |-> << >>, content_type |-> "", size |-> 0,
             bytes |-> << >>]

\* the product rows of the database, and the product ids requests name
Products == {1}
ProductIds == {1, 2}

\* the values uuid.uuid4() returns; "u0" names an asset uploaded earlier
UuidPool == <<"u1", "u2", "u3", "u4", "u5">>
Uuids == {UuidPool[k] : k \in 1..Len(UuidPool)}

\* directory listings the upload directory can hold when the requests of a
\* behaviour start: nothing, or the files of an earlier photo upload and a
\* file that no upload wrote
PriorDisk ==
    ( <<"u0", "_", "thumb", ".", "jpg">> :> <<"resized", "thumb", "Z">>
      @@ <<"u0", "_", "medium", ".", "jpg">> :> <<"resized", "medium", "Z">>
      @@ <<"u0", "_", "large", ".", "jpg">> :> <<"resized", "large", "Z">>
      @@ <<"u0", "_", "original", ".", "jpg">> :> <<"Z">>
      @@ <<"logo", ".", "png">> :> <<"L">> )

InitialDisks == { << >>, PriorDisk }

(* ------------------------------- state -------------------------------- *)
VARIABLES
    disk,     \* the upload directory: file name -> content
    disk0,    \* the upload directory when the behaviour started (history)
    db,       \* the rows of the media table
    used,     \* the values uuid4 has returned
    faults,   \* the number of faults injected so far
    budget,   \* the number of faults the behaviour may inject
    active,   \* the run slots requests may use
    loop,     \* the request that holds the event loop, 0 when it is free
    runs,     \* per request: the locals of upload_media and of its callees
    img,      \* the last call of resize_image: source size, box, result size
    enc,      \* the last variant encoded: extension, mode, format, result
    batch,    \* the locals of upload_multiple_media
    products, \* the ids of the rows of the product table
    calls,    \* per thread: the locals of its call of a database endpoint
    last,     \* the number of calls begun, and the move_order_up that
              \* has just returned, when it ran alone (history)
    id_seq    \* the last value of the sequence behind Media.id

vars ==
    <<disk, disk0, db, used, faults, budget, active, loop, runs, img, enc,
      batch, products, calls, last, id_seq>>

\* no video capture was opened
NoCapture == [isOpened |-> FALSE, total_frames |-> 0, ret |-> FALSE,
              reads |-> 0]

\* the frame counts a container reports
FrameCounts == (0..MaxFrames) \cup {300}

\* what cv2.VideoCapture can report for a stored video: it does not open;
\* it opens and reports no frames; it opens, reports frames, and the one
\* cap.read() of line 183 returns a frame (ret) or does not
VideoCaptures ==
    { NoCapture,
      [isOpened |-> TRUE, total_frames |-> 0, ret |-> FALSE, reads |-> 0] }
    \cup { [isOpened |-> TRUE, total_frames |-> n, ret |-> b, reads |-> 1] :
             n \in FrameCounts \ {0}, b \in BOOLEAN }

\* the same in a behaviour of concurrent requests: the container does
\* not open, or it has one frame, which is read
ConcCaptures ==
    { cap \in VideoCaptures :
          ~ cap.isOpened \/ (cap.total_frames = 1 /\ cap.ret) }

\* what the video captures of a behaviour report
VideoCapturesOf(slots) ==
    IF Cardinality(slots) > 1 THEN ConcCaptures ELSE VideoCaptures

\* the locals of one request before it starts
IdleRun ==
    [ pc |-> "idle",
      file |-> NoUpload,
      product_id |-> 0,
      media_type |-> "",
      base_filename |-> "",
      file_extension |-> << >>,
      temp_filename |-> None,
      variants |-> << >>,             \* create_image_variants /
                                      \* create_thumbnail_variants: variants
      cv_variants |-> << >>,          \* create_video_thumbnail_variants: variants
      temp_thumbnail_path |-> None,
      filename_variants |-> None,
      filename |-> None,
      file_path |-> None,
      middle_frame |-> 0,
      cap |-> NoCapture,              \* what the video capture reported
      i |-> 0,                        \* position of the running for loop
      result |-> "",                  \* what the request returned or raised
      fail_step |-> "",               \* history: the step that failed first
      rm_fault |-> FALSE,             \* history: an os.remove raised
      rm_failed |-> << >>,            \* history: files whose os.remove raised
      skipped |-> << >>,              \* history: files a cleanup found absent
      fail_index |-> 0,               \* history: which file of the run (in
                                      \* order of creation, temporary files
                                      \* not counted) the failing write was on
      written |-> << >>,              \* history: files created, in order
      recorded |-> << >>,             \* history: files recorded in a variants
                                      \* dict, in order
      removed |-> << >> ]             \* history: files removed, in order

TypeOK ==
    /\ faults \in 0..budget
    /\ loop \in Runs \cup {0}
    /\ used \subseteq Uuids
    /\ active \subseteq Runs
    /\ DOMAIN runs = Runs

Init ==
    /\ disk \in InitialDisks
    /\ disk0 = disk
    /\ db = {}
    /\ used = {}
    /\ faults = 0
    /\ budget = MaxFaults
    /\ active = {1}
    /\ loop = 0
    /\ runs = [r \in Runs |-> IdleRun]
    /\ img = NoImage
    /\ enc = NoEncode
    /\ batch = IdleBatch
    /\ products = Products
    /\ calls = [c \in Threads |-> IdleCall]
    /\ last = NoLast
    /\ id_seq = 0

\* the same, with every run slot in use: concurrent requests
InitConc ==
    /\ disk = PriorDisk
    /\ disk0 = disk
    /\ db = {}
    /\ used = {}
    /\ faults = 0
    /\ budget = MaxConcFaults
    /\ active = Runs
    /\ loop = 0
    /\ runs = [r \in Runs |-> IdleRun]
    /\ img = NoImage
    /\ enc = NoEncode
    /\ batch = IdleBatch
    /\ products = Products
    /\ calls = [c \in Threads |-> IdleCall]
    /\ last = NoLast
    /\ id_seq = 0

(* --------------------------- file operations --------------------------- *)
\* open(name, 'wb') followed by write(content): it succeeds, or open raises
\* and no file is made, or the write raises and a truncated file is left.
\* Image.save(path) has the same outcomes (whether a failed save removes
\* the file it made depends on the version of the imaging library).
WriteOutcomes(d, name, content) ==
    { [ok |-> TRUE, fault |-> FALSE, created |-> TRUE,
       disk |-> Put(d, name, content)],
      [ok |-> FALSE, fault |-> TRUE, created |-> FALSE, disk |-> d],
      [ok |-> FALSE, fault |-> TRUE, created |-> TRUE,
       disk |-> Put(d, name, Partial)] }

\* a variant of CopyOutcomes: the copy goes through the image encoder
CopyOutcomes_Reencoded(d, src, dst) ==
    IF ~ Exists(d, src)
    THEN { [ok |-> FALSE, fault |-> FALSE, created |-> FALSE, disk |-> d] }
    ELSE WriteOutcomes(d, dst, Resized(d[src], <<"original">>))

\* open(src, 'rb') ... open(dst, 'wb') ... dst.write(src.read())
CopyOutcomes(d, src, dst) ==
    IF ~ Exists(d, src)
    THEN { [ok |-> FALSE, fault |-> FALSE, created |-> FALSE, disk |-> d] }
    ELSE WriteOutcomes(d, dst, d[src])

\* resize_image(src, dimensions) followed by Image.save(dst): the decoder
\* may raise before anything is written
ResizeSaveOutcomes(d, src, dst, size_name) ==
    IF ~ Exists(d, src)
    THEN { [ok |-> FALSE, fault |-> FALSE, created |-> FALSE, disk |-> d] }
    ELSE WriteOutcomes(d, dst, Resized(d[src], size_name))

\* a variant of RemoveIfExistsOutcomes: os.remove without the exists test
\* raises FileNotFoundError for a file that is not there
RemoveIfExistsOutcomes_NoExistsTest(d, name) ==
    IF ~ Exists(d, name)
    THEN { [ok |-> FALSE, fault |-> FALSE, removed |-> FALSE, disk |-> d] }
    ELSE { [ok |-> TRUE, fault |-> FALSE, removed |-> TRUE,
            disk |-> Remove(d, name)],
           [ok |-> FALSE, fault |-> TRUE, removed |-> FALSE, disk |-> d] }

\* if os.path.exists(name): os.remove(name)
RemoveIfExistsOutcomes(d, name) ==
    IF ~ Exists(d, name)
    THEN { [ok |-> TRUE, fault |-> FALSE, removed |-> FALSE, disk |-> d] }
    ELSE { [ok |-> TRUE, fault |-> FALSE, removed |-> TRUE,
            disk |-> Remove(d, name)],
           [ok |-> FALSE, fault |-> TRUE, removed |-> FALSE, disk |-> d] }

\* os.rename(src, dst)
RenameOutcomes(d, src, dst) ==
    IF ~ Exists(d, src)
    THEN { [ok |-> FALSE, fault |-> FALSE, disk |-> d] }
    ELSE { [ok |-> TRUE, fault |-> FALSE, disk |-> Rename(d, src, dst)],
           [ok |-> FALSE, fault |-> TRUE, disk |-> d] }

\* an outcome is possible while the fault budget lasts
Allowed(o) == o.fault => faults < budget

Charge(o) == faults' = faults + (IF o.fault THEN 1 ELSE 0)

\* the first failing step of a run is remembered
FirstFail(run, step) == IF run.fail_step = "" THEN step ELSE run.fail_step

\* the positions at which a request does not hold the event loop: before
\* it starts, suspended in "await file.read()", and after it returned
YieldPcs == {"idle", "save_file_write", "done", "failed"}

\* a request runs when the event loop is free or its own
Scheduled(r) == loop \in {0, r}

\* the locals of request r change; it keeps the event loop unless it is
\* suspended or has returned
Set(r, run) ==
    /\ runs' = [runs EXCEPT ![r] = run]
    /\ loop' = IF run.pc \in YieldPcs THEN 0 ELSE r
    /\ UNCHANGED <<img, enc, batch, products, calls, last, id_seq>>

(* ------------------------------ naming --------------------------------- *)
\* validate_file: the media type of an accepted upload, "" for a rejected one
validate_file(file) ==
    IF file.filename = << >> THEN ""
    ELSE IF file.size > MAX_FILE_SIZE THEN ""
    ELSE IF file.content_type \notin ALLOWED_TYPES THEN ""
    ELSE IF file.content_type \in ALLOWED_IMAGE_TYPES THEN "photo"
    ELSE "video"

\* a variant of uuid4: the same value for every request
uuid4_Repeats(issued) == {UuidPool[1]}

\* a variant of uuid4: the value that names the asset uploaded earlier
uuid4_ExistingAsset(issued) == {"u0"}

\* uuid.uuid4(): a value it has not returned before.  The values are
\* interchangeable, so they are issued in the order of the pool.
uuid4(issued) ==
    { UuidPool[k] : k \in { j \in 1..Len(UuidPool) :
                               /\ UuidPool[j] \notin issued
                               /\ \A h \in 1..(j - 1) : UuidPool[h] \in issued } }

\* generate_filename: the pairs (unique_name, file_extension) it can return
generate_filename(original_filename, issued) ==
    { <<u, file_extension_of(original_filename)>> : u \in uuid4(issued) }

(* ------------------- upload_media: up to the try block ----------------- *)
\* lines 270-282: product lookup, validate_file, generate_filename.
\* The requests are numbered in the order in which they arrive.
upload_media_begin(r, file, product_id) ==
    LET run == runs[r] IN
    /\ run.pc = "idle"
    /\ \A q \in active : q < r => runs[q].pc # "idle"
    /\ IF product_id \notin Products \/ validate_file(file) = ""
       THEN /\ Set(r, [run EXCEPT !.pc = "failed", !.result = "HTTP400"])
            /\ UNCHANGED used
       ELSE \E g \in generate_filename(file.filename, used) :
            /\ used' = used \cup {g[1]}
            /\ Set(r, [run EXCEPT !.pc = "save_file", !.file = file,
                                  !.product_id = product_id,
                                  !.media_type = validate_file(file),
                                  !.base_filename = g[1],
                                  !.file_extension = g[2],
                                  !.temp_filename =
                                      temp_filename_of(g[1], g[2])])
    /\ UNCHANGED <<disk, disk0, db, faults, budget, active>>

\* line 285, save_file up to its await (lines 141-145): the temporary file
\* is opened for writing, which creates it empty, and the request is
\* suspended in "await file.read()".  save_file is called outside the try
\* block of upload_media, so its HTTPException leaves upload_media at once.
save_file_open(r) ==
    LET run == runs[r] IN
    /\ run.pc = "save_file"
    /\ \E o \in { x \in WriteOutcomes(disk, run.temp_filename, << >>) :
                      x.ok \/ ~ x.created } :
        /\ Allowed(o) /\ Charge(o)
        /\ disk' = o.disk
        /\ IF o.ok
           THEN Set(r, [run EXCEPT !.pc = "save_file_write",
                    !.written = Append(run.written, run.temp_filename)])
           ELSE Set(r, [run EXCEPT !.pc = "failed", !.result = "HTTP500",
                    !.fail_step = FirstFail(run, "save_file")])
    /\ UNCHANGED <<disk0, db, used, budget, active>>

\* save_file after its await (lines 145-152): the bytes read are written;
\* when the read or the write raises, the file stays empty or truncated
save_file_write(r) ==
    LET run == runs[r] IN
    /\ run.pc = "save_file_write"
    /\ \E o \in { x \in WriteOutcomes(disk, run.temp_filename,
                                      run.file.bytes) : x.created } :
        /\ Allowed(o) /\ Charge(o)
        /\ disk' = o.disk
        /\ IF o.ok
           THEN Set(r, [run EXCEPT
                    !.pc = IF run.media_type = "photo" THEN "civ_copy"
                           ELSE "um_rename"])
           ELSE Set(r, [run EXCEPT !.pc = "failed", !.result = "HTTP500",
                    !.fail_step = FirstFail(run, "save_file")])
    /\ UNCHANGED <<disk0, db, used, budget, active>>

(* ------------------------ create_image_variants ------------------------ *)
\* lines 92-99: the byte copy of the upload
civ_copy(r) ==
    LET run == runs[r]
        name == original_filename_of(run.base_filename, run.file_extension)
    IN
    /\ run.pc = "civ_copy"
    /\ \E o \in CopyOutcomes(disk, run.temp_filename, name) :
        /\ Allowed(o) /\ Charge(o)
        /\ disk' = o.disk
        /\ LET w == IF o.created THEN Append(run.written, name)
                    ELSE run.written
           IN  IF o.ok
               THEN Set(r, [run EXCEPT !.written = w,
                        !.variants = SetItem(<< >>, <<"original">>, name),
                        !.recorded = Append(run.recorded, name),
                        !.i = 1, !.pc = "civ_size"])
               ELSE Set(r, [run EXCEPT !.written = w,
                        !.variants = << >>,
                        !.i = 1, !.pc = "civ_except",
                        !.fail_index = 1,
                        !.fail_step = FirstFail(run, "civ_copy")])
    /\ UNCHANGED <<disk0, db, used, budget, active>>

\* lines 102-125: one turn of the loop over IMAGE_SIZES (without
\* 'original'); after the last turn the dict is returned and lines 294-296
\* of upload_media set filename, file_path and filename_variants
civ_size(r) ==
    LET run == runs[r]
        size_name == PhotoSizes[run.i]
        name == variant_filename_of(run.base_filename, size_name,
                                    run.file_extension)
    IN
    /\ run.pc = "civ_size"
    /\ \E o \in ResizeSaveOutcomes(disk, run.temp_filename, name, size_name) :
        /\ Allowed(o) /\ Charge(o)
        /\ disk' = o.disk
        /\ LET w == IF o.created THEN Append(run.written, name)
                    ELSE run.written
               v == SetItem(run.variants, size_name, name)
           IN  IF ~ o.ok
               THEN Set(r, [run EXCEPT !.written = w,
                        !.i = 1, !.pc = "civ_except",
                        !.fail_index = run.i + 1,
                        !.fail_step = FirstFail(run, "civ_size")])
               ELSE IF run.i < Len(PhotoSizes)
               THEN Set(r, [run EXCEPT !.written = w, !.variants = v,
                        !.recorded = Append(run.recorded, name),
                        !.i = run.i + 1])
               ELSE Set(r, [run EXCEPT !.written = w, !.variants = v,
                        !.recorded = Append(run.recorded, name),
                        !.filename = Lookup(v, <<"medium">>),
                        !.file_path = Lookup(v, <<"medium">>),
                        !.filename_variants = v,
                        !.i = 0, !.pc = "um_rm_temp"])
    /\ UNCHANGED <<disk0, db, used, budget, active>>

\* the histories of a run after "if exists(name): remove(name)" had the
\* outcome o
Logged(run, o, name) ==
    [run EXCEPT
        !.removed = IF o.removed THEN Append(@, name) ELSE @,
        !.skipped = IF o.ok /\ ~ o.removed THEN Append(@, name) ELSE @,
        !.rm_failed = IF o.ok THEN @ ELSE Append(@, name),
        !.rm_fault = @ \/ ~ o.ok]

\* One turn of a cleanup loop "for f in files: if exists(f): remove(f)"
\* at position run.i, in the handler of the step pc_here.  After the last
\* turn the handler raises its HTTPException and control is at pc_raise;
\* an OSError of os.remove leaves the handler towards pc_oserror.  When
\* that leaves upload_media ("failed"), it is what the request raises.
CleanupTurn(r, pc_here, files, pc_raise, pc_oserror) ==
    LET run == runs[r] IN
    /\ run.pc = pc_here
    /\ IF run.i > Len(files)
       THEN /\ Set(r, [run EXCEPT !.i = 1, !.pc = pc_raise,
                         !.result = IF pc_raise = "failed"
                                    THEN "HTTP500" ELSE @])
            /\ UNCHANGED <<disk, faults>>
       ELSE \E o \in RemoveIfExistsOutcomes(disk, files[run.i]) :
            /\ Allowed(o) /\ Charge(o)
            /\ disk' = o.disk
            /\ LET lg == Logged(run, o, files[run.i])
               IN  IF o.ok
                   THEN Set(r, [lg EXCEPT !.i = run.i + 1])
                   ELSE Set(r, [lg EXCEPT !.i = 1, !.pc = pc_oserror,
                                !.result = IF pc_oserror = "failed"
                                           THEN "OSError" ELSE @])
    /\ UNCHANGED <<disk0, db, used, budget, active>>

\* a variant of CleanupOrder: the loop misses the first file of the dict
CleanupOrder_SkipsFirst(dict) ==
    IF dict = << >> THEN << >> ELSE Tail(Values(dict))

\* the order in which a cleanup loop visits the files of a dict:
\* "for variant_file in variants.values()"
CleanupOrder(dict) == Values(dict)

\* lines 127-136: the handler of create_image_variants
civ_except(r) ==
    CleanupTurn(r, "civ_except", CleanupOrder(runs[r].variants),
                "um_except_temp", "um_except_temp")

\* lines 298-300: the temporary upload is removed after the variants exist
um_rm_temp(r) ==
    LET run == runs[r] IN
    /\ run.pc = "um_rm_temp"
    /\ \E o \in RemoveIfExistsOutcomes(disk, run.temp_filename) :
        /\ Allowed(o) /\ Charge(o)
        /\ disk' = o.disk
        /\ IF o.ok
           THEN Set(r, [Logged(run, o, run.temp_filename) EXCEPT
                    !.pc = "db_create"])
           ELSE Set(r, [Logged(run, o, run.temp_filename) EXCEPT
                    !.pc = "um_except_temp",
                    !.fail_step = FirstFail(run, "um_rm_temp")])
    /\ UNCHANGED <<disk0, db, used, budget, active>>

(* ------------------------- upload_media: video ------------------------- *)
\* lines 304-306: filename and file_path are bound, then the temporary
\* upload is renamed to the stored video
um_rename(r) ==
    LET run == runs[r]
        name == video_filename_of(run.base_filename, run.file_extension)
    IN
    /\ run.pc = "um_rename"
    /\ \E o \in RenameOutcomes(disk, run.temp_filename, name) :
        /\ Allowed(o) /\ Charge(o)
        /\ disk' = o.disk
        /\ IF o.ok
           THEN Set(r, [run EXCEPT !.filename = name, !.file_path = name,
                    !.written = Append(run.written, name),
                    !.pc = "cvtv_extract"])
           ELSE Set(r, [run EXCEPT !.filename = name, !.file_path = name,
                    !.pc = "um_except_temp",
                    !.fail_index = 1,
                    !.fail_step = FirstFail(run, "um_rename")])
    /\ UNCHANGED <<disk0, db, used, budget, active>>

\* a variant of middle_frame_of: the half is rounded up
middle_frame_of_RoundsUp(total_frames) == (total_frames + 1) \div 2

\* total_frames // 2
middle_frame_of(total_frames) == total_frames \div 2

\* lines 162-188: open the container, read the frame count, seek to the
\* middle frame and decode it
cvtv_extract(r) ==
    LET run == runs[r] IN
    /\ run.pc = "cvtv_extract"
    /\ \E cap \in VideoCapturesOf(active) :
        LET seek == IF cap.isOpened /\ cap.total_frames # 0
                    THEN middle_frame_of(cap.total_frames) ELSE 0
        IN
        IF cap.isOpened /\ cap.total_frames # 0 /\ cap.ret
        THEN Set(r, [run EXCEPT !.variants = << >>, !.cv_variants = << >>,
                 !.cap = cap, !.middle_frame = seek,
                 !.pc = "cvtv_save_temp"])
        ELSE Set(r, [run EXCEPT !.variants = << >>, !.cv_variants = << >>,
                 !.cap = cap, !.middle_frame = seek,
                 !.pc = "cvtv_except_temp",
                 !.fail_step = FirstFail(run, "cvtv_extract")])
    /\ UNCHANGED <<disk, disk0, db, used, faults, budget, active>>

\* lines 191-193: temp_thumbnail_path is bound, then the frame is saved;
\* the capture and the frame index are not used after the frame has been
\* decoded
cvtv_save_temp(r) ==
    LET run == runs[r]
        name == temp_thumbnail_path_of(run.base_filename)
    IN
    /\ run.pc = "cvtv_save_temp"
    /\ \E o \in WriteOutcomes(disk, name, FrameJpeg(run.file.bytes)) :
        /\ Allowed(o) /\ Charge(o)
        /\ disk' = o.disk
        /\ LET w == IF o.created THEN Append(run.written, name)
                    ELSE run.written
           IN  IF o.ok
               THEN Set(r, [run EXCEPT !.written = w,
                        !.temp_thumbnail_path = name, !.middle_frame = 0,
                        !.cap = NoCapture,
                        !.variants = << >>, !.i = 1, !.pc = "ctv_size"])
               ELSE Set(r, [run EXCEPT !.written = w,
                        !.temp_thumbnail_path = name, !.middle_frame = 0,
                        !.cap = NoCapture,
                        !.pc = "cvtv_except_temp",
                        !.fail_step = FirstFail(run, "cvtv_save_temp")])
    /\ UNCHANGED <<disk0, db, used, budget, active>>

(* ---------------------- create_thumbnail_variants ---------------------- *)
\* lines 229-245: one turn of the loop over IMAGE_SIZES; 'original' is a
\* byte copy of the temporary thumbnail, the others are resized.  After the
\* last turn the dict is returned and line 196 binds it to the variants of
\* create_video_thumbnail_variants
ctv_size(r) ==
    LET run == runs[r]
        size_name == IMAGE_SIZES[run.i]
        name == thumbnail_variant_filename_of(run.base_filename, size_name)
    IN
    /\ run.pc = "ctv_size"
    /\ \E o \in (IF size_name = <<"original">>
                 THEN CopyOutcomes(disk, run.temp_thumbnail_path, name)
                 ELSE ResizeSaveOutcomes(disk, run.temp_thumbnail_path,
                                         name, size_name)) :
        /\ Allowed(o) /\ Charge(o)
        /\ disk' = o.disk
        /\ LET w == IF o.created THEN Append(run.written, name)
                    ELSE run.written
               v == SetItem(run.variants, size_name, name)
           IN  IF ~ o.ok
               THEN Set(r, [run EXCEPT !.written = w,
                        !.i = 1, !.pc = "ctv_except",
                        !.fail_index = run.i + 1,
                        !.fail_step = FirstFail(run, "ctv_size")])
               ELSE IF run.i < Len(IMAGE_SIZES)
               THEN Set(r, [run EXCEPT !.written = w, !.variants = v,
                        !.recorded = Append(run.recorded, name),
                        !.i = run.i + 1])
               ELSE Set(r, [run EXCEPT !.written = w, !.variants = v,
                        !.recorded = Append(run.recorded, name),
                        !.cv_variants = v,
                        !.i = 0, !.pc = "cvtv_rm_temp"])
    /\ UNCHANGED <<disk0, db, used, budget, active>>

\* lines 247-256: the handler of create_thumbnail_variants; what it raises
\* is caught by the handler of create_video_thumbnail_variants
ctv_except(r) ==
    CleanupTurn(r, "ctv_except", CleanupOrder(runs[r].variants),
                "cvtv_except_temp", "cvtv_except_temp")

(* ------------------- create_video_thumbnail_variants ------------------- *)
\* lines 198-202: the temporary thumbnail is removed and the dict returned;
\* line 309 of upload_media binds it to filename_variants
cvtv_rm_temp(r) ==
    LET run == runs[r] IN
    /\ run.pc = "cvtv_rm_temp"
    /\ \E o \in RemoveIfExistsOutcomes(disk, run.temp_thumbnail_path) :
        /\ Allowed(o) /\ Charge(o)
        /\ disk' = o.disk
        /\ IF o.ok
           THEN Set(r, [Logged(run, o, run.temp_thumbnail_path) EXCEPT
                    !.pc = "db_create",
                    !.filename_variants = run.cv_variants])
           ELSE Set(r, [Logged(run, o, run.temp_thumbnail_path) EXCEPT
                    !.pc = "cvtv_except_temp",
                    !.fail_step = FirstFail(run, "cvtv_rm_temp")])
    /\ UNCHANGED <<disk0, db, used, budget, active>>

\* lines 204-209: the handler first removes the temporary thumbnail, when
\* temp_thumbnail_path is bound
cvtv_except_temp(r) ==
    LET run == runs[r] IN
    /\ run.pc = "cvtv_except_temp"
    /\ IF run.temp_thumbnail_path = None
       THEN /\ Set(r, [run EXCEPT !.i = 1, !.pc = "cvtv_except_variants"])
            /\ UNCHANGED <<disk, faults>>
       ELSE \E o \in RemoveIfExistsOutcomes(disk, run.temp_thumbnail_path) :
            /\ Allowed(o) /\ Charge(o)
            /\ disk' = o.disk
            /\ IF o.ok
               THEN Set(r, [Logged(run, o, run.temp_thumbnail_path) EXCEPT
                        !.i = 1, !.pc = "cvtv_except_variants"])
               ELSE Set(r, [Logged(run, o, run.temp_thumbnail_path) EXCEPT
                        !.i = 1, !.pc = "um_except_temp"])
    /\ UNCHANGED <<disk0, db, used, budget, active>>

\* lines 211-220: then the files of its own variants dict
cvtv_except_variants(r) ==
    CleanupTurn(r, "cvtv_except_variants", CleanupOrder(runs[r].cv_variants),
                "um_except_temp", "um_except_temp")

(* ------------------------ MediaRepository.create ----------------------- *)
\* the parameters of MediaRepository.create (app/media/repository.py)
create_parameters ==
    {"db", "product_id", "type", "filename", "file_path",
     "original_filename", "file_size", "mime_type", "alt_text"}

\* the keyword arguments upload_media passes to it
create_arguments ==
    {"db", "product_id", "type", "filename", "original_filename",
     "file_path", "file_size", "mime_type", "alt_text", "filename_variants"}

\* get_next_sort_order: 0 for a product without media, else the greatest
\* sort_order of the product plus one
get_next_sort_order(rows, product_id) ==
    LET S == {m.sort_order : m \in {x \in rows : x.product_id = product_id}}
    IN  IF S = {} THEN 0 ELSE (CHOOSE s \in S : \A t \in S : t <= s) + 1

\* the primary key the database gives the next row
next_id(rows) ==
    IF rows = {} THEN 1
    ELSE (CHOOSE k \in {m.id : m \in rows} :
              \A m \in rows : m.id <= k) + 1

\* the row Media(...) builds: the variant columns are not set
new_media(rows, product_id, type, filename, file_path) ==
    [ id |-> next_id(rows), product_id |-> product_id, type |-> type,
      filename |-> filename, file_path |-> file_path,
      filename_thumb |-> None, filename_medium |-> None,
      filename_large |-> None, filename_original |-> None,
      sort_order |-> get_next_sort_order(rows, product_id) ]

\* a call with a keyword the function does not declare raises TypeError
\* before the body runs; otherwise the row is added and the commit
\* succeeds or raises
create_outcomes(arguments) ==
    IF ~ (arguments \subseteq create_parameters)
    THEN { [ok |-> FALSE, fault |-> FALSE, error |-> "TypeError"] }
    ELSE { [ok |-> TRUE, fault |-> FALSE, error |-> ""],
           [ok |-> FALSE, fault |-> TRUE, error |-> "SQLAlchemyError"] }

\* lines 312-325
db_create(r) ==
    LET run == runs[r] IN
    /\ run.pc = "db_create"
    /\ \E o \in create_outcomes(create_arguments) :
        /\ Allowed(o) /\ Charge(o)
        /\ IF o.ok
           THEN /\ db' = db \cup {new_media(db, run.product_id,
                                    run.media_type, run.filename,
                                    run.file_path)}
                /\ Set(r, [run EXCEPT !.pc = "done", !.result = "media"])
           ELSE /\ db' = db
                /\ Set(r, [run EXCEPT !.pc = "um_except_temp",
                         !.fail_step = FirstFail(run, "db_create")])
    /\ UNCHANGED <<disk, disk0, used, budget, active>>

(* ---------------------- upload_media: the handler ---------------------- *)
\* lines 327-330: the temporary upload is removed when it exists; an
\* OSError of os.remove here leaves upload_media
um_except_temp(r) ==
    LET run == runs[r] IN
    /\ run.pc = "um_except_temp"
    /\ \E o \in RemoveIfExistsOutcomes(disk, run.temp_filename) :
        /\ Allowed(o) /\ Charge(o)
        /\ disk' = o.disk
        /\ IF o.ok
           THEN Set(r, [Logged(run, o, run.temp_filename) EXCEPT
                    !.i = 1,
                    !.pc = IF run.filename_variants # None
                           THEN "um_except_variants"
                           ELSE "um_except_file"])
           ELSE Set(r, [Logged(run, o, run.temp_filename) EXCEPT
                    !.pc = "failed", !.result = "OSError"])
    /\ UNCHANGED <<disk0, db, used, budget, active>>

\* lines 333-337: "if filename_variants:" the files of the dict ...
um_except_variants(r) ==
    /\ CleanupTurn(r, "um_except_variants",
                   CleanupOrder(runs[r].filename_variants),
                   "failed", "failed")

\* a variant of um_except_file: the handler has no branch for the primary
\* file
um_except_file_KeepsFile(r) ==
    LET run == runs[r] IN
    /\ run.pc = "um_except_file"
    /\ Set(r, [run EXCEPT !.pc = "failed", !.result = "HTTP500"])
    /\ UNCHANGED <<disk, disk0, db, used, faults, budget, active>>

\* lines 339-345: "elif 'file_path' in locals() and exists(file_path):"
\* ... else the primary file, when file_path is bound; then the
\* HTTPException 500 is raised
um_except_file(r) ==
    LET run == runs[r] IN
    /\ run.pc = "um_except_file"
    /\ IF run.file_path = None
       THEN /\ Set(r, [run EXCEPT !.pc = "failed", !.result = "HTTP500"])
            /\ UNCHANGED <<disk, faults>>
       ELSE \E o \in RemoveIfExistsOutcomes(disk, run.file_path) :
            /\ Allowed(o) /\ Charge(o)
            /\ disk' = o.disk
            /\ IF o.ok
               THEN Set(r, [Logged(run, o, run.file_path) EXCEPT
                        !.pc = "failed", !.result = "HTTP500"])
               ELSE Set(r, [Logged(run, o, run.file_path) EXCEPT
                        !.pc = "failed", !.result = "OSError"])
    /\ UNCHANGED <<disk0, db, used, budget, active>>

(* --------------------------- specification ----------------------------- *)
Next ==
    \/ \E r \in active, file \in UploadsOf(active),
          product_id \in ProductIds :
           Scheduled(r) /\ upload_media_begin(r, file, product_id)
    \/ \E r \in active : Scheduled(r) /\ save_file_open(r)
    \/ \E r \in active : Scheduled(r) /\ save_file_write(r)
    \/ \E r \in active : Scheduled(r) /\ civ_copy(r)
    \/ \E r \in active : Scheduled(r) /\ civ_size(r)
    \/ \E r \in active : Scheduled(r) /\ civ_except(r)
    \/ \E r \in active : Scheduled(r) /\ um_rm_temp(r)
    \/ \E r \in active : Scheduled(r) /\ um_rename(r)
    \/ \E r \in active : Scheduled(r) /\ cvtv_extract(r)
    \/ \E r \in active : Scheduled(r) /\ cvtv_save_temp(r)
    \/ \E r \in active : Scheduled(r) /\ ctv_size(r)
    \/ \E r \in active : Scheduled(r) /\ ctv_except(r)
    \/ \E r \in active : Scheduled(r) /\ cvtv_rm_temp(r)
    \/ \E r \in active : Scheduled(r) /\ cvtv_except_temp(r)
    \/ \E r \in active : Scheduled(r) /\ cvtv_except_variants(r)
    \/ \E r \in active : Scheduled(r) /\ db_create(r)
    \/ \E r \in active : Scheduled(r) /\ um_except_temp(r)
    \/ \E r \in active : Scheduled(r) /\ um_except_variants(r)
    \/ \E r \in active : Scheduled(r) /\ um_except_file(r)

\* one request at a time
Spec == Init /\ [][Next]_vars

\* concurrent requests
SpecConc == InitConc /\ [][Next]_vars

(* ------------------- resize_image as a pure function ------------------- *)
\* lines 74-83: the call of resize_image a behaviour makes
resize_image(image_size, size) ==
    /\ img = NoImage
    /\ img' = [image_size |-> image_size, size |-> size,
               out |-> resize_image_size(image_size, size)]
    /\ UNCHANGED <<disk, disk0, db, used, faults, budget, active, loop, runs,
                   enc, batch, products, calls, last, id_seq>>

NextResize ==
    \E image_size \in ImageSizes, size \in BoundingBoxes :
        resize_image(image_size, size)

\* calls of resize_image on every source size and bounding box
SpecResize == InitConc /\ [][NextResize]_vars

(* ------------------------------ vocabulary ----------------------------- *)
(* ------------------- one variant: resize and encode -------------------- *)
\* lines 102-123, one turn of the loop of create_image_variants for an
\* upload named original_filename whose image has the colour mode mode:
\* generate_filename gave the extension, resize_image returns the image,
\* save encodes it under variant_filename
encode_variant(original_filename, mode, size_name) ==
    LET file_extension == file_extension_of(original_filename)
        converted == resize_image_mode(mode)
        p == save_parameters(file_extension)
    IN
    /\ enc = NoEncode
    /\ enc' = [ original_filename |-> original_filename,
                file_extension |-> file_extension, mode |-> mode,
                size_name |-> size_name, converted |-> converted,
                format |-> p.format, quality |-> p.quality,
                optimize |-> p.optimize,
                variant_filename |->
                    variant_filename_of("u1", size_name, file_extension),
                saved |-> CanEncode(p.format, converted) ]
    /\ UNCHANGED <<disk, disk0, db, used, faults, budget, active, loop, runs,
                   img, batch, products, calls, last, id_seq>>

NextEncode ==
    \E original_filename \in EncodeNames, mode \in ImageModes,
       k \in 1..Len(PhotoSizes) :
        encode_variant(original_filename, mode, PhotoSizes[k])

\* the encoding of a variant for every upload name, colour mode and size
SpecEncode == InitConc /\ [][NextEncode]_vars

(* ------------- api/v1: upload_multiple_media, its inputs --------------- *)
\* the greatest number of files a batch of the model carries
MaxBatch == 2

\* api/v1/endpoints/media.py, line 20: 50 MB, one unit of the model a MB
v1_MAX_FILE_SIZE == 50

\* line 150: the greatest number of files of one batch
MAX_FILES == 10

\* the files of the batches: a photo, a video, and a part without file name
BatchUploads ==
    { u \in Uploads : u.filename \in { <<"a", ".", "JPG">>,
                                       <<"clip", ".", "mp4">>, << >> } }

\* the sequences of at most n elements of S, the empty one left out
SeqsUpTo(S, n) == UNION { [1..k -> S] : k \in 1..n }

\* the batches: every sequence of one to MaxBatch files, and one batch of
\* MAX_FILES + 1 photos
Batches ==
    SeqsUpTo(BatchUploads, MaxBatch)
        \cup { [k \in 1..(MAX_FILES + 1) |->
                  CHOOSE u \in BatchUploads : u.filename = <<"a", ".", "JPG">>] }

\* validate_file(file, file_type) of api/v1: TRUE when it does not raise
v1_validate_file(file, file_type) ==
    /\ file.filename # << >>
    /\ ~ (file.size # 0 /\ file.size > v1_MAX_FILE_SIZE)
    /\ file.content_type \in (IF file_type = "photo"
                              THEN ALLOWED_IMAGE_TYPES
                              ELSE ALLOWED_VIDEO_TYPES)

\* generate_filename of api/v1: "{uuid4}{suffix.lower()}"
v1_generate_filename(original_filename, issued) ==
    { <<u>> \o file_extension_of(original_filename) : u \in uuid4(issued) }

\* the row MediaRepository.create of app/repositories builds; is_main is
\* False, by default and in the call of upload_multiple_media
v1_new_media(rows, product_id, type, filename, file_path, sort_order) ==
    [ id |-> next_id(rows), product_id |-> product_id, type |-> type,
      filename |-> filename, file_path |-> file_path,
      sort_order |-> sort_order, is_main |-> FALSE ]

\* db.add(media); db.commit(): it succeeds or raises
v1_create_outcomes ==
    { [ok |-> TRUE, fault |-> FALSE], [ok |-> FALSE, fault |-> TRUE] }

\* MediaRepository.delete(db, media_id) of app/repositories: the row is
\* deleted and True returned, False is returned for a missing row, or the
\* query or the commit raises
v1_delete_outcomes(rows, media_id) ==
    IF \A m \in rows : m.id # media_id
    THEN { [ok |-> FALSE, fault |-> FALSE, rows |-> rows] }
    ELSE { [ok |-> TRUE, fault |-> FALSE,
            rows |-> {m \in rows : m.id # media_id}],
           [ok |-> FALSE, fault |-> TRUE, rows |-> rows] }

(* -------------------- api/v1: upload_multiple_media -------------------- *)
\* the variables upload_multiple_media leaves alone
BatchFrame ==
    UNCHANGED <<disk0, budget, active, loop, runs, img, enc, products, calls,
                last, id_seq>>

\* lines 143-157: the product lookup and the limit of MAX_FILES files
upload_multiple_media_begin(product_id, media_type, files) ==
    /\ batch.pc = "idle"
    /\ IF product_id \notin Products \/ Len(files) > MAX_FILES
       THEN batch' = [batch EXCEPT !.pc = "failed", !.result = "HTTP400"]
       ELSE batch' = [batch EXCEPT !.pc = "mu_validate",
                          !.product_id = product_id,
                          !.media_type = media_type,
                          !.files = files, !.i = 1]
    /\ UNCHANGED <<disk, db, used, faults>>
    /\ BatchFrame

\* lines 160-165: validate_file raises inside the try block; otherwise
\* generate_filename names the file
mu_validate ==
    LET file == batch.files[batch.i] IN
    /\ batch.pc = "mu_validate"
    /\ IF ~ v1_validate_file(file, batch.media_type)
       THEN /\ batch' = [batch EXCEPT !.pc = "mu_except_files", !.j = 1,
                             !.fail_step = "validate"]
            /\ UNCHANGED used
       ELSE \E filename \in v1_generate_filename(file.filename, used) :
            /\ used' = used \cup {filename[1]}
            /\ batch' = [batch EXCEPT !.pc = "mu_save",
                             !.filename = filename,
                             !.names = Append(batch.names, filename)]
    /\ UNCHANGED <<disk, db, faults>>
    /\ BatchFrame

\* lines 168-169 and save_file (58-71): the file is opened and written;
\* its path is appended to created_files after save_file returned
mu_save ==
    /\ batch.pc = "mu_save"
    /\ \E o \in WriteOutcomes(disk, batch.filename,
                              batch.files[batch.i].bytes) :
        /\ Allowed(o) /\ Charge(o)
        /\ disk' = o.disk
        /\ IF o.ok
           THEN batch' = [batch EXCEPT !.pc = "mu_create",
                            !.created_files = Append(batch.created_files,
                                                     batch.filename)]
           ELSE batch' = [batch EXCEPT !.pc = "mu_except_files", !.j = 1,
                            !.fail_step = "save"]
    /\ UNCHANGED <<db, used>>
    /\ BatchFrame

\* lines 172-186: the row of file i gets sort_order i (from 0) and is_main
\* False; after the last file the list of rows is returned
mu_create ==
    /\ batch.pc = "mu_create"
    /\ \E o \in v1_create_outcomes :
        /\ Allowed(o) /\ Charge(o)
        /\ IF o.ok
           THEN LET media == v1_new_media(db, batch.product_id,
                                 batch.media_type, batch.filename,
                                 batch.filename, batch.i - 1)
                IN  /\ db' = db \cup {media}
                    /\ IF batch.i < Len(batch.files)
                       THEN batch' = [batch EXCEPT !.pc = "mu_validate",
                                !.i = batch.i + 1,
                                !.created_media =
                                    Append(batch.created_media, media.id)]
                       ELSE batch' = [batch EXCEPT !.pc = "done",
                                !.result = "media",
                                !.created_media =
                                    Append(batch.created_media, media.id)]
           ELSE /\ db' = db
                /\ batch' = [batch EXCEPT !.pc = "mu_except_files", !.j = 1,
                                 !.fail_step = "create"]
    /\ UNCHANGED <<disk, used>>
    /\ BatchFrame

\* lines 190-192: every path of created_files is removed when it exists; an
\* OSError of os.remove leaves the handler
mu_except_files ==
    /\ batch.pc = "mu_except_files"
    /\ IF batch.j > Len(batch.created_files)
       THEN /\ batch' = [batch EXCEPT !.pc = "mu_except_media", !.j = 1]
            /\ UNCHANGED <<disk, faults>>
       ELSE \E o \in RemoveIfExistsOutcomes(disk,
                                            batch.created_files[batch.j]) :
            /\ Allowed(o) /\ Charge(o)
            /\ disk' = o.disk
            /\ IF o.ok
               THEN batch' = [batch EXCEPT !.j = batch.j + 1]
               ELSE batch' = [batch EXCEPT !.pc = "failed",
                                !.result = "OSError", !.rm_failed = TRUE]
    /\ UNCHANGED <<db, used>>
    /\ BatchFrame

\* lines 195-204: every row of created_media is deleted, an exception of
\* the deletion is passed over; then HTTP 500 is raised
mu_except_media ==
    /\ batch.pc = "mu_except_media"
    /\ IF batch.j > Len(batch.created_media)
       THEN /\ batch' = [batch EXCEPT !.pc = "failed", !.result = "HTTP500"]
            /\ UNCHANGED <<db, faults>>
       ELSE \E o \in v1_delete_outcomes(db, batch.created_media[batch.j]) :
            /\ Allowed(o) /\ Charge(o)
            /\ db' = o.rows
            /\ batch' = [batch EXCEPT !.j = batch.j + 1,
                             !.delete_failed =
                                 batch.delete_failed \/ o.fault]
    /\ UNCHANGED <<disk, used>>
    /\ BatchFrame

NextBatch ==
    \/ \E product_id \in ProductIds, media_type \in {"photo", "video"},
          files \in Batches :
           upload_multiple_media_begin(product_id, media_type, files)
    \/ mu_validate
    \/ mu_save
    \/ mu_create
    \/ mu_except_files
    \/ mu_except_media

\* one request of upload_multiple_media
SpecBatch == Init /\ [][NextBatch]_vars

(* ------------------ the media table: assets and rows ------------------- *)
\* the assets whose files the upload pipeline has generated: two photos
\* and a video for product 1, a video for product 2
Assets ==
    { [base |-> "u1", type |-> "photo", product_id |-> 1,
       file_extension |-> <<".", "jpg">>],
      [base |-> "u2", type |-> "video", product_id |-> 1,
       file_extension |-> <<".", "mp4">>],
      [base |-> "u3", type |-> "photo", product_id |-> 1,
       file_extension |-> <<".", "jpg">>],
      [base |-> "u4", type |-> "video", product_id |-> 2,
       file_extension |-> <<".", "mp4">>] }

\* upload_media, lines 294 and 304: the primary file name of an asset
primary_filename_of(a) ==
    IF a.type = "photo"
    THEN variant_filename_of(a.base, <<"medium">>, a.file_extension)
    ELSE video_filename_of(a.base, a.file_extension)

\* the files the upload of an asset created: the four variants of a photo;
\* the stored video and its four thumbnails
AssetFiles(a) ==
    IF a.type = "photo"
    THEN { original_filename_of(a.base, a.file_extension) }
         \cup { variant_filename_of(a.base, PhotoSizes[k], a.file_extension) :
                  k \in 1..Len(PhotoSizes) }
    ELSE { video_filename_of(a.base, a.file_extension) }
         \cup { thumbnail_variant_filename_of(a.base, IMAGE_SIZES[k]) :
                  k \in 1..Len(IMAGE_SIZES) }

\* the asset a row was created for
AssetOf(m) == CHOOSE a \in Assets : primary_filename_of(a) = m.filename

\* the upload directory after the uploads of the assets
AssetDisk ==
    [ name \in UNION { AssetFiles(a) : a \in Assets } |-> <<"F">> ]

\* the table after MediaRepository.create ran for u1 and then for u4
InitialRows ==
    LET a1 == CHOOSE a \in Assets : a.base = "u1"
        a4 == CHOOSE a \in Assets : a.base = "u4"
        m1 == new_media({}, a1.product_id, a1.type, primary_filename_of(a1),
                        primary_filename_of(a1))
        m4 == new_media({m1}, a4.product_id, a4.type,
                        primary_filename_of(a4), primary_filename_of(a4))
    IN  {m1, m4}

\* the ids calls name: those the sequence can have issued, and one more
MediaIds == 1..(Cardinality(Assets) + 1)

\* the assets whose rows calls of MediaRepository.create add
NewAssets == {a \in Assets : a.base \in {"u2", "u3"}}

\* the files of the assets are on disk, the table holds the rows of two of
\* them, both products exist, no call is running
InitMedia ==
    /\ disk = AssetDisk
    /\ disk0 = disk
    /\ db = InitialRows
    /\ used = {a.base : a \in Assets}
    /\ faults = 0
    /\ budget = MaxConcFaults
    /\ active = {}
    /\ loop = 0
    /\ runs = [r \in Runs |-> IdleRun]
    /\ img = NoImage
    /\ enc = NoEncode
    /\ batch = IdleBatch
    /\ products = ProductIds
    /\ calls = [c \in Threads |-> IdleCall]
    /\ last = NoLast
    /\ id_seq = Cardinality(db)

(* ------------------- the media table: bookkeeping ---------------------- *)
\* the variables the database endpoints leave alone
MediaFrame ==
    UNCHANGED <<disk0, used, budget, active, loop, runs, img, enc, batch>>

InFlight(call) == call.pc \notin {"idle", "returned"}

\* a new call runs on the first free thread, while the behaviour has
\* calls left
CanBegin(c) ==
    /\ ~ InFlight(calls[c])
    /\ \A d \in Threads : d < c => InFlight(calls[d])
    /\ last.n < MaxCalls

\* the locals of a call that starts now
Fresh(c, kind) ==
    [ IdleCall EXCEPT !.kind = kind, !.before = db,
                      !.alone = \A d \in Threads \ {c} : ~ InFlight(calls[d]),
                      !.prev = last.call ]

\* the locals of the threads after thread c took a step to call: the calls
\* in flight of the other threads have been overlapped, and the locals of
\* a call that returned earlier are dropped
After(c, call) ==
    [ d \in Threads |->
        IF d = c THEN call
        ELSE IF InFlight(calls[d]) THEN [calls[d] EXCEPT !.alone = FALSE]
        ELSE IdleCall ]

\* the number of calls begun after this step
Count(call) == last.n + (IF InFlight(call) THEN 0 ELSE 1)

\* thread c, whose locals were old, moves on to call
Step(c, old, call) ==
    /\ calls' = After(c, call)
    /\ last' = [n |-> Count(old), call |-> NoMove]

\* thread c, whose locals were old, returns result from call; rows and
\* listing are the table and the directory it leaves
Return(c, old, call, result, rows, listing) ==
    LET ret == [call EXCEPT !.pc = "returned", !.result = result,
                            !.after = rows, !.files_after = listing]
    IN
    /\ calls' = After(c, ret)
    /\ last' = [ n |-> Count(old),
                 call |-> IF /\ ret.kind = "move_up" /\ ret.alone
                             /\ result = "media"
                          THEN [kind |-> ret.kind, media_id |-> ret.media_id,
                                before |-> ret.before]
                          ELSE NoMove ]

\* db.commit(): it succeeds or raises
commit_outcomes ==
    { [ok |-> TRUE, fault |-> FALSE], [ok |-> FALSE, fault |-> TRUE] }

(* --------------------- MediaRepository.create -------------------------- *)
\* repository.py, line 24: Media(...) is built, which runs the query of
\* get_next_sort_order
create_read(c, a) ==
    /\ CanBegin(c)
    /\ \A m \in db : m.filename # primary_filename_of(a)
    /\ \A d \in Threads : InFlight(calls[d]) => calls[d].asset # a
    /\ Step(c, calls[c], [Fresh(c, "create") EXCEPT !.pc = "create_insert",
                   !.asset = a, !.product_id = a.product_id,
                   !.sort_order = get_next_sort_order(db, a.product_id)])
    /\ UNCHANGED <<disk, db, faults, products, id_seq>>
    /\ MediaFrame

\* lines 26-29: the row is inserted with the sort_order read before and
\* the next id of the sequence; the foreign key rejects a row of a product
\* that is gone
create_insert(c) ==
    LET call == calls[c]
        a == call.asset
    IN
    /\ call.pc = "create_insert"
    /\ IF a.product_id \notin products
       THEN /\ Return(c, calls[c], call, "IntegrityError", db, DOMAIN disk)
            /\ UNCHANGED <<db, faults, id_seq>>
       ELSE \E o \in commit_outcomes :
            /\ Allowed(o) /\ Charge(o)
            /\ IF o.ok
               THEN LET media ==
                        [ new_media(db, a.product_id, a.type,
                                    primary_filename_of(a),
                                    primary_filename_of(a))
                          EXCEPT !.id = id_seq + 1,
                                 !.sort_order = call.sort_order ]
                    IN  /\ db' = db \cup {media}
                        /\ id_seq' = id_seq + 1
                        /\ Return(c, calls[c], [call EXCEPT !.media_id = media.id],
                                  "media", db \cup {media}, DOMAIN disk)
               ELSE /\ UNCHANGED <<db, id_seq>>
                    /\ Return(c, calls[c], call, "SQLAlchemyError", db, DOMAIN disk)
    /\ UNCHANGED <<disk, products>>
    /\ MediaFrame

(* ----------------- move_order_up and move_order_down ------------------- *)
\* the rows the query of move_order_up (lines 358-366) or move_order_down
\* (394-402) can return with first(): a row of the same product with the
\* greatest smaller, or the least greater, sort_order; the database picks
\* one of several such rows
neighbours(rows, existing, kind) ==
    LET S == { m \in rows :
                 /\ m.product_id = existing.product_id
                 /\ IF kind = "move_up"
                    THEN m.sort_order < existing.sort_order
                    ELSE m.sort_order > existing.sort_order }
    IN  { m \in S : \A x \in S : IF kind = "move_up"
                                 THEN x.sort_order <= m.sort_order
                                 ELSE x.sort_order >= m.sort_order }

\* lines 352-372 and 388-408: get_by_id, 404 for no row; the query for the
\* neighbour, 400 for none
move_read(c, kind, media_id) ==
    LET E == {m \in db : m.id = media_id}
        call == [Fresh(c, kind) EXCEPT !.media_id = media_id]
    IN
    /\ CanBegin(c)
    /\ IF E = {}
       THEN Return(c, calls[c], call, "HTTP404", db, DOMAIN disk)
       ELSE LET existing == CHOOSE m \in E : TRUE IN
            IF neighbours(db, existing, kind) = {}
            THEN Return(c, calls[c], [call EXCEPT !.existing = existing],
                        "HTTP400", db, DOMAIN disk)
            ELSE \E other \in neighbours(db, existing, kind) :
                    Step(c, calls[c], [call EXCEPT !.pc = "move_commit",
                                !.existing = existing, !.other = other])
    /\ UNCHANGED <<disk, db, faults, products, id_seq>>
    /\ MediaFrame

\* lines 374-378 and 410-414: each of the two rows gets the sort_order
\* that was read from the other
exchanged(rows, existing, other) ==
    { IF m.id = existing.id
      THEN [m EXCEPT !.sort_order = other.sort_order]
      ELSE IF m.id = other.id
      THEN [m EXCEPT !.sort_order = existing.sort_order]
      ELSE m : m \in rows }

\* lines 380-382 and 416-418: the commit writes the two rows; it raises
\* (StaleDataError) when one of them is gone from the table
move_commit(c) ==
    LET call == calls[c] IN
    /\ call.pc = "move_commit"
    /\ IF {call.existing.id, call.other.id} \subseteq {m.id : m \in db}
       THEN \E o \in commit_outcomes :
            /\ Allowed(o) /\ Charge(o)
            /\ IF o.ok
               THEN /\ db' = exchanged(db, call.existing, call.other)
                    /\ Return(c, calls[c], call, "media",
                              exchanged(db, call.existing, call.other),
                              DOMAIN disk)
               ELSE /\ db' = db
                    /\ Return(c, calls[c], call, "SQLAlchemyError", db, DOMAIN disk)
       ELSE /\ Return(c, calls[c], call, "StaleDataError", db, DOMAIN disk)
            /\ UNCHANGED <<db, faults>>
    /\ UNCHANGED <<disk, products, id_seq>>
    /\ MediaFrame

(* ---------------------------- delete_media ----------------------------- *)
\* lines 430-445: the files delete_media removes for a row: for a photo
\* the variant columns that are set, for a video file_path
files_to_remove(media) ==
    IF media.type = "photo"
    THEN SelectSeq(<<media.filename_thumb, media.filename_medium,
                     media.filename_large, media.filename_original>>,
                   LAMBDA f : f # None)
    ELSE <<media.file_path>>

\* lines 423-427: get_by_id, 404 for no row
delete_media_read(c, media_id) ==
    LET E == {m \in db : m.id = media_id}
        call == [Fresh(c, "delete_media") EXCEPT !.media_id = media_id]
    IN
    /\ CanBegin(c)
    /\ IF E = {}
       THEN Return(c, calls[c], call, "HTTP404", db, DOMAIN disk)
       ELSE LET media == CHOOSE m \in E : TRUE IN
            Step(c, calls[c], [call EXCEPT !.existing = media,
                        !.files = files_to_remove(media), !.j = 1,
                        !.pc = IF files_to_remove(media) = << >>
                               THEN "delete_media_row"
                               ELSE "delete_media_files"])
    /\ UNCHANGED <<disk, db, faults, products, id_seq>>
    /\ MediaFrame

\* lines 438-445: "if os.path.exists(path): os.remove(path)", file by file;
\* an OSError of os.remove leaves delete_media
delete_media_files(c) ==
    LET call == calls[c] IN
    /\ call.pc = "delete_media_files"
    /\ \E o \in RemoveIfExistsOutcomes(disk, call.files[call.j]) :
        /\ Allowed(o) /\ Charge(o)
        /\ disk' = o.disk
        /\ IF o.ok
           THEN Step(c, calls[c], [call EXCEPT !.j = call.j + 1,
                            !.pc = IF call.j < Len(call.files)
                                   THEN "delete_media_files"
                                   ELSE "delete_media_row"])
           ELSE Return(c, calls[c], call, "OSError", db, DOMAIN o.disk)
    /\ UNCHANGED <<db, products, id_seq>>
    /\ MediaFrame

\* lines 447-451 and MediaRepository.delete: False (404) for a row that is
\* gone; else the row is deleted, or the commit raises
delete_media_row(c) ==
    LET call == calls[c] IN
    /\ call.pc = "delete_media_row"
    /\ IF \A m \in db : m.id # call.media_id
       THEN /\ Return(c, calls[c], call, "HTTP404", db, DOMAIN disk)
            /\ UNCHANGED <<db, faults>>
       ELSE \E o \in commit_outcomes :
            /\ Allowed(o) /\ Charge(o)
            /\ IF o.ok
               THEN /\ db' = {m \in db : m.id # call.media_id}
                    /\ Return(c, calls[c], call, "deleted",
                              {m \in db : m.id # call.media_id}, DOMAIN disk)
               ELSE /\ db' = db
                    /\ Return(c, calls[c], call, "SQLAlchemyError", db, DOMAIN disk)
    /\ UNCHANGED <<disk, products, id_seq>>
    /\ MediaFrame

(* --------------------------- delete_product ---------------------------- *)
\* products/router.py 108-115 and ProductRepository.delete: 404 for no
\* product; else the product row goes and, by the cascade of the media
\* relationship, every media row of the product; no file is touched
delete_product(c, product_id) ==
    LET call == [Fresh(c, "delete_product") EXCEPT !.product_id = product_id]
    IN
    /\ CanBegin(c)
    /\ IF product_id \notin products
       THEN /\ Return(c, calls[c], call, "HTTP404", db, DOMAIN disk)
            /\ UNCHANGED <<db, products, faults>>
       ELSE \E o \in commit_outcomes :
            /\ Allowed(o) /\ Charge(o)
            /\ IF o.ok
               THEN /\ products' = products \ {product_id}
                    /\ db' = {m \in db : m.product_id # product_id}
                    /\ Return(c, calls[c], call, "deleted",
                              {m \in db : m.product_id # product_id},
                              DOMAIN disk)
               ELSE /\ UNCHANGED <<db, products>>
                    /\ Return(c, calls[c], call, "SQLAlchemyError", db, DOMAIN disk)
    /\ UNCHANGED <<disk, id_seq>>
    /\ MediaFrame

NextMedia ==
    \/ \E c \in Threads, a \in NewAssets : create_read(c, a)
    \/ \E c \in Threads : create_insert(c)
    \/ \E c \in Threads, kind \in {"move_up", "move_down"},
          media_id \in MediaIds : move_read(c, kind, media_id)
    \/ \E c \in Threads : move_commit(c)
    \/ \E c \in Threads, media_id \in MediaIds : delete_media_read(c, media_id)
    \/ \E c \in Threads : delete_media_files(c)
    \/ \E c \in Threads : delete_media_row(c)
    \/ \E c \in Threads, product_id \in ProductIds :
           delete_product(c, product_id)

\* calls of the database endpoints on two threads
SpecMedia == InitMedia /\ [][NextMedia]_vars

Range(seq) == {seq[k] : k \in 1..Len(seq)}

Started(r) == runs[r].base_filename # ""

\* the steps inside variant generation: the copy of the original, resize,
\* encode and write of a variant, open / seek / decode of the video, the
\* rename to the stored video
InternalSteps ==
    {"civ_copy", "civ_size", "um_rename", "cvtv_extract", "cvtv_save_temp",
     "ctv_size"}

\* the positions of a photo request after create_image_variants returned
\* its dict
PhotoReturned == {"um_rm_temp", "db_create", "done"}

\* the positions of a photo request after create_image_variants raised
PhotoRaised ==
    {"um_except_temp", "um_except_variants", "um_except_file", "failed"}

\* every name a request with this base and extension can use
AllNames(base_filename, file_extension) ==
    { temp_filename_of(base_filename, file_extension),
      original_filename_of(base_filename, file_extension),
      video_filename_of(base_filename, file_extension),
      temp_thumbnail_path_of(base_filename) }
    \cup { variant_filename_of(base_filename, PhotoSizes[k], file_extension) :
             k \in 1..Len(PhotoSizes) }
    \cup { thumbnail_variant_filename_of(base_filename, IMAGE_SIZES[k]) :
             k \in 1..Len(IMAGE_SIZES) }

\* the files of the upload directory the request made and has not removed
OwnFiles(r) ==
    LET run == runs[r]
        video == video_filename_of(run.base_filename, run.file_extension)
    IN  (Range(run.written) \ Range(run.removed))
        \ (IF video \in Range(run.written) THEN {run.temp_filename} ELSE {})

(* ------------------------------- claims -------------------------------- *)

\* C1: when a request has failed at an internal step of variant generation
\* (and every os.remove it called succeeded), the upload directory is what
\* it was before the request started.
C1_DirectoryRestoredAfterInternalFailure ==
    \A r \in active :
        (/\ runs[r].pc = "failed"
         /\ runs[r].fail_step \in InternalSteps
         /\ ~ runs[r].rm_fault)
        => disk = disk0

\* C2: when writing the k-th file of a photo request failed, every file the
\* request had recorded in its variants dict is absent from disk once
\* create_image_variants has raised, the dict was never returned, and the
\* request ends with an error.
C2_RecordedFilesRemovedAfterWriteFailure ==
    \A r \in active :
        (/\ runs[r].media_type = "photo"
         /\ runs[r].fail_step \in {"civ_copy", "civ_size"}
         /\ ~ runs[r].rm_fault
         /\ runs[r].pc \in PhotoRaised)
        => /\ \A name \in Range(runs[r].recorded) : ~ Exists(disk, name)
           /\ runs[r].filename_variants = None
           /\ runs[r].pc = "failed" => runs[r].result = "HTTP500"

\* the case of C2: the write of 'large' failed after original, thumb and
\* medium were recorded, and the request has returned
C2_Witness ==
    \E r \in active :
        /\ runs[r].media_type = "photo"
        /\ runs[r].fail_step = "civ_size"
        /\ Len(runs[r].recorded) = 3
        /\ Len(runs[r].removed) >= 3
        /\ ~ runs[r].rm_fault
        /\ runs[r].pc = "failed"

\* C3: when the database write failed after variant generation succeeded
\* (and every os.remove succeeded), no file the request made is left: not
\* the variant files, and for a video not the stored video either.
C3_AllFilesRemovedAfterDatabaseFailure ==
    \A r \in active :
        (/\ runs[r].pc = "failed"
         /\ runs[r].fail_step = "db_create"
         /\ ~ runs[r].rm_fault)
        => \A name \in Range(runs[r].written) : ~ Exists(disk, name)

\* C4: once variant generation has succeeded, the photo variant
\* {baseId}_original{ext} holds exactly the uploaded bytes, and the stored
\* video {baseId}{ext} holds exactly the uploaded bytes.
C4_UploadedBytesPreserved ==
    \A r \in active :
        /\ (runs[r].media_type = "photo" /\ runs[r].pc \in PhotoReturned)
           => LET name == <<runs[r].base_filename, "_", "original">>
                          \o runs[r].file_extension
              IN  Exists(disk, name) /\ disk[name] = runs[r].file.bytes
        /\ (runs[r].media_type = "video"
            /\ runs[r].pc \in {"cvtv_extract", "cvtv_save_temp", "ctv_size",
                               "cvtv_rm_temp", "db_create", "done"})
           => LET name == <<runs[r].base_filename>> \o runs[r].file_extension
              IN  Exists(disk, name) /\ disk[name] = runs[r].file.bytes

\* the case of C4: the variants of a photo have been generated
C4_Witness ==
    \E r \in active :
        /\ runs[r].media_type = "photo"
        /\ runs[r].pc = "db_create"
        /\ Len(runs[r].written) = 5

\* C5 (state part): whenever create_image_variants has returned, the dict
\* has exactly the keys original, thumb, medium, large, every mapped file
\* exists and the primary filename is variants[medium].
C5_CompleteVariantSet ==
    \A r \in active :
        (runs[r].media_type = "photo" /\ runs[r].pc \in PhotoReturned)
        => LET v == runs[r].filename_variants IN
           /\ Len(v) = 4
           /\ Keys(v) = {<<"original">>, <<"thumb">>, <<"medium">>,
                         <<"large">>}
           /\ \A k \in 1..Len(v) : Exists(disk, v[k][2])
           /\ \E k \in 1..Len(v) :
                  v[k][1] = <<"medium">> /\ runs[r].filename = v[k][2]

\* C5 (step part): once a step of a request has failed, the request writes
\* no further file, records none, gets no variants dict and returns no
\* result.
C5_NothingAfterFailure ==
    \A r \in active :
        runs[r].fail_step # ""
        => /\ runs'[r].written = runs[r].written
           /\ runs'[r].recorded = runs[r].recorded
           /\ runs'[r].filename_variants = runs[r].filename_variants
           /\ runs'[r].result # "media"

\* C5: a photo request never returns a partial variant set.
C5_NoPartialVariantSet ==
    [] C5_CompleteVariantSet /\ [][C5_NothingAfterFailure]_vars

\* the case of C5: create_image_variants has returned its dict
C5_Witness ==
    \E r \in active :
        /\ runs[r].media_type = "photo"
        /\ runs[r].pc = "um_rm_temp"
        /\ runs[r].filename_variants # None

\* C6: when create_video_thumbnail_variants has returned, the primary
\* filename is {baseId}{ext}, the dict has exactly the keys thumb, medium,
\* large, original, each mapped to {baseId}_thumbnail_{size}.jpg whatever
\* the extension of the video, and each of these files exists.
C6_VideoResult ==
    \A r \in active :
        (runs[r].media_type = "video" /\ runs[r].pc \in {"db_create", "done"})
        => LET v == runs[r].filename_variants
               b == runs[r].base_filename
           IN
           /\ runs[r].filename = <<b>> \o runs[r].file_extension
           /\ Exists(disk, runs[r].filename)
           /\ Len(v) = 4
           /\ Keys(v) = {<<"thumb">>, <<"medium">>, <<"large">>,
                         <<"original">>}
           /\ \A k \in 1..Len(v) :
                  /\ v[k][2] = <<b, "_", "thumb", "nail", "_">> \o v[k][1]
                               \o <<".", "jpg">>
                  /\ Exists(disk, v[k][2])

\* the case of C6: a video whose extension is not .jpg has its thumbnails
C6_Witness ==
    \E r \in active :
        /\ runs[r].media_type = "video"
        /\ runs[r].pc = "db_create"
        /\ runs[r].file_extension = <<".", "mp4">>

\* C7 (state part): every file a request has made, and every file of the
\* upload directory that was not there at the start, has a name that starts
\* with the base identifier of the request; the photo variants are named
\* {baseId}_{variant}{ext}.
C7_NamesDerivedFromBaseId ==
    /\ \A r \in active :
           Started(r) =>
           /\ \A name \in Range(runs[r].written) :
                  IsPrefix(<<runs[r].base_filename>>, name)
           /\ runs[r].media_type = "photo" =>
                  \A k \in 1..Len(runs[r].variants) :
                      runs[r].variants[k][2] =
                          <<runs[r].base_filename, "_">>
                          \o runs[r].variants[k][1]
                          \o runs[r].file_extension
    /\ \A name \in (DOMAIN disk) \ (DOMAIN disk0) :
           \E r \in active :
               Started(r) /\ IsPrefix(<<runs[r].base_filename>>, name)

\* C7 (step part): the base identifier and the extension of a request are
\* set once and never change.
C7_BaseIdSetOnce ==
    \A r \in active :
        Started(r)
        => /\ runs'[r].base_filename = runs[r].base_filename
           /\ runs'[r].file_extension = runs[r].file_extension

\* C7: the base identifier is generated once per request and every file
\* name of the request is derived from it.
C7_OneBaseIdPerRun ==
    [] C7_NamesDerivedFromBaseId /\ [][C7_BaseIdSetOnce]_vars

\* the case of C7: a video request has made all its seven files
C7_Witness ==
    \E r \in active :
        /\ runs[r].media_type = "video"
        /\ runs[r].pc = "db_create"
        /\ Len(runs[r].written) = 7

\* C8: for the base identifier and extension of a request, different
\* variant names give different file names, and the eleven names a request
\* can use (temporary upload, original, thumb, medium, large, stored video,
\* temporary thumbnail, four video thumbnails) are pairwise different.
C8_NamesInjective ==
    \A r \in active :
        Started(r) =>
        LET b == runs[r].base_filename
            e == runs[r].file_extension
        IN
        /\ \A j, k \in 1..Len(IMAGE_SIZES) :
               j # k =>
               /\ variant_filename_of(b, IMAGE_SIZES[j], e)
                      # variant_filename_of(b, IMAGE_SIZES[k], e)
               /\ thumbnail_variant_filename_of(b, IMAGE_SIZES[j])
                      # thumbnail_variant_filename_of(b, IMAGE_SIZES[k])
        /\ Cardinality(AllNames(b, e)) = 11

\* the case of C8: a request whose upload has no extension, the case in
\* which the names are shortest
C8_Witness ==
    \E r \in active :
        /\ Started(r)
        /\ runs[r].file_extension = << >>
        /\ runs[r].pc = "db_create"

\* C9 (state part): two requests have different base identifiers, no name
\* in common and no file in common, and the files in the upload directory
\* under the base identifier of a request are exactly the files that
\* request made and did not remove.
C9_RunsDisjoint ==
    /\ \A r1, r2 \in active :
           (r1 # r2 /\ Started(r1) /\ Started(r2)) =>
           /\ runs[r1].base_filename # runs[r2].base_filename
           /\ AllNames(runs[r1].base_filename, runs[r1].file_extension)
              \cap AllNames(runs[r2].base_filename, runs[r2].file_extension)
              = {}
           /\ Range(runs[r1].written) \cap Range(runs[r2].written) = {}
    /\ \A r \in active :
           Started(r) =>
           { name \in DOMAIN disk :
                 IsPrefix(<<runs[r].base_filename>>, name) } = OwnFiles(r)

\* C9 (step part): a step of a request creates, overwrites or removes only
\* files whose name starts with its own base identifier and that no other
\* request made.
C9_StepTouchesOwnFiles ==
    \A r \in active :
        runs'[r] # runs[r] =>
        \A name \in (DOMAIN disk) \cup (DOMAIN disk') :
            (\/ name \notin DOMAIN disk
             \/ name \notin DOMAIN disk'
             \/ disk[name] # disk'[name])
            => /\ IsPrefix(<<runs'[r].base_filename>>, name)
               /\ \A q \in active \ {r} :
                      name \notin Range(runs[q].written)

\* C9: concurrent or successive requests write and delete disjoint sets of
\* files.
C9_ConcurrentRunsIndependent ==
    [] C9_RunsDisjoint /\ [][C9_StepTouchesOwnFiles]_vars

\* the case of C9: two requests for the same upload, one suspended in
\* save_file while the other ran to its end and cleaned up
C9_Witness ==
    \E r1, r2 \in active :
        /\ r1 # r2
        /\ runs[r1].pc = "save_file_write"
        /\ runs[r2].pc = "failed"
        /\ Len(runs[r2].removed) >= 4
        /\ runs[r2].file = runs[r1].file

\* C10: every file that was in the upload directory before the request
\* started is still there, with the same content, at every point of the
\* request and after it returned.
C10_PriorFilesUntouched ==
    \A name \in DOMAIN disk0 :
        Exists(disk, name) /\ disk[name] = disk0[name]

\* the case of C10: the directory held files of an earlier upload and the
\* request failed and removed files
C10_Witness ==
    \E r \in active :
        /\ disk0 # << >>
        /\ runs[r].pc = "failed"
        /\ runs[r].fail_step # ""
        /\ Len(runs[r].removed) >= 2

\* the files of a request the code keeps track of, in the order it made
\* them: the stored video (file_path) and the files recorded in a variants
\* dict
Tracked(r) ==
    LET run == runs[r]
        video == video_filename_of(run.base_filename, run.file_extension)
    IN  (IF run.media_type = "video" /\ video \in Range(run.written)
         THEN <<video>> ELSE << >>) \o run.recorded

\* the files a request created, in order, without its two temporary files
CreatedFinal(r) ==
    LET run == runs[r]
        IsFinal(name) ==
            /\ name # run.temp_filename
            /\ name # temp_thumbnail_path_of(run.base_filename)
    IN  SelectSeq(run.written, IsFinal)

\* the order C11 states: a photo writes original, thumb, medium, large; a
\* video the stored video, then the thumbnails thumb, medium, large,
\* original
C11_Sequence(r) ==
    LET b == runs[r].base_filename
        e == runs[r].file_extension
    IN  CASE runs[r].media_type = "photo" ->
               << original_filename_of(b, e),
                  variant_filename_of(b, <<"thumb">>, e),
                  variant_filename_of(b, <<"medium">>, e),
                  variant_filename_of(b, <<"large">>, e) >>
          [] runs[r].media_type = "video" ->
               << video_filename_of(b, e),
                  thumbnail_variant_filename_of(b, <<"thumb">>),
                  thumbnail_variant_filename_of(b, <<"medium">>),
                  thumbnail_variant_filename_of(b, <<"large">>),
                  thumbnail_variant_filename_of(b, <<"original">>) >>
          [] OTHER -> << >>

\* C11: within one run the files are written in a fixed order (photo:
\* original, thumb, medium, large; video: the stored video, then the
\* thumbnails thumb, medium, large, original): at every point the files
\* created so far and the files tracked so far are prefixes of that
\* sequence, a file is tracked only after it was created, and after a
\* failure while writing the k-th file the tracked files are exactly the
\* first k-1 files of the sequence.
C11_WriteOrderFixed ==
    \A r \in active :
        LET seq == C11_Sequence(r) IN
        /\ IsPrefix(CreatedFinal(r), seq)
        /\ IsPrefix(Tracked(r), CreatedFinal(r))
        /\ Len(CreatedFinal(r)) <= Len(Tracked(r)) + 1
        /\ runs[r].fail_index > 0 =>
               Tracked(r) = SubSeq(seq, 1, runs[r].fail_index - 1)

\* the case of C11: the write of the fourth file of a video run (the large
\* thumbnail) failed after the stored video and two thumbnails were made
C11_Witness ==
    \E r \in active :
        /\ runs[r].media_type = "video"
        /\ runs[r].fail_step = "ctv_size"
        /\ runs[r].fail_index = 4
        /\ Len(Tracked(r)) = 3
        /\ runs[r].pc = "failed"

\* the position of a file in a history
Pos(seq, x) == CHOOSE k \in 1..Len(seq) : seq[k] = x

\* C12 as stated: cleanup deletes the tracked files in reverse order of
\* creation, the file created last first and the file created first last.
C12_ReverseCreationOrder ==
    \A r \in active :
        LET run == runs[r] IN
        \A i, j \in 1..Len(run.removed) :
            /\ i < j
            /\ run.removed[i] \in Range(Tracked(r))
            /\ run.removed[j] \in Range(Tracked(r))
            => Pos(run.written, run.removed[i])
                   > Pos(run.written, run.removed[j])

\* C12, amended: a cleanup loop deletes the files recorded in its variants
\* dict in the order of their creation, the file created first first; the
\* stored video of a video run, although created before its thumbnails, is
\* deleted after them.
C12_CreationOrder ==
    \A r \in active :
        LET run == runs[r]
            video == video_filename_of(run.base_filename,
                                       run.file_extension)
        IN
        \A i, j \in 1..Len(run.removed) :
            /\ i < j
            /\ run.removed[j] \in Range(run.recorded)
            => /\ run.removed[i] \in Range(run.recorded) =>
                    Pos(run.written, run.removed[i])
                        < Pos(run.written, run.removed[j])
               /\ run.media_type = "video" => run.removed[i] # video

\* the case of C12: a cleanup deleted at least three recorded files
C12_Witness ==
    \E r \in active :
        /\ runs[r].pc = "failed"
        /\ Cardinality(Range(runs[r].removed)
                           \cap Range(runs[r].recorded)) >= 3

\* C13 as stated: a deletion that fails during cleanup is not raised; the
\* cleanup goes on to the remaining recorded files, so that after the
\* request failed every recorded file other than the ones whose deletion
\* failed is gone, and the caller receives the error of the handler (HTTP
\* 500), not the error of the deletion.
C13_DeletionFailureNotRaised ==
    \A r \in active :
        (/\ runs[r].pc = "failed"
         /\ runs[r].fail_step # ""
         /\ runs[r].rm_failed # << >>)
        => /\ runs[r].result = "HTTP500"
           /\ \A name \in Range(runs[r].recorded) \ Range(runs[r].rm_failed) :
                  ~ Exists(disk, name)

\* a step in which a cleanup found its file absent: the file was not on
\* disk, the directory is left as it was, no deletion error is recorded
\* and the request does not end with the error of a deletion
C14_SkipStep ==
    \A r \in active :
        runs'[r].skipped # runs[r].skipped =>
            LET name == runs'[r].skipped[Len(runs'[r].skipped)] IN
            /\ runs'[r].skipped = Append(runs[r].skipped, name)
            /\ ~ Exists(disk, name)
            /\ disk' = disk
            /\ runs'[r].rm_failed = runs[r].rm_failed
            /\ runs'[r].result # "OSError"

\* a request that failed without any injected fault (its cleanup met
\* files that were gone already) ends with the HTTP 500 of the handler and
\* none of its recorded files is left
C14_CleanupCompletes ==
    \A r \in active :
        (runs[r].pc = "failed" /\ runs[r].fail_step # "" /\ faults = 0)
        => /\ runs[r].result = "HTTP500"
           /\ runs[r].skipped # << >>
           /\ \A name \in Range(runs[r].recorded) : ~ Exists(disk, name)

\* C14: a file a cleanup is to delete that is no longer on disk is skipped
\* without raising an error, and the files after it are still deleted.
C14_MissingFileSkipped ==
    [] C14_CleanupCompletes /\ [][C14_SkipStep]_vars

\* the case of C14: the cleanup of a photo run found the temporary upload
\* gone and went on to delete the four recorded variants
C14_Witness ==
    \E r \in active :
        /\ runs[r].pc = "failed"
        /\ runs[r].media_type = "photo"
        /\ runs[r].temp_filename \in Range(runs[r].skipped)
        /\ Len(runs[r].recorded) = 4
        /\ Range(runs[r].recorded) \subseteq Range(runs[r].removed)
        /\ \A name \in Range(runs[r].recorded) : ~ Exists(disk, name)

\* the state of the run state machine a request is in, from its position
\* in the code
RunState(r) ==
    LET pc == runs[r].pc IN
    CASE pc = "idle" -> "Idle"
      [] pc \in {"save_file", "save_file_write"} -> "Allocating"
      [] pc \in {"civ_copy", "um_rename"} -> "WritingOriginal"
      [] pc \in {"civ_size", "um_rm_temp", "cvtv_extract", "cvtv_save_temp",
                 "ctv_size", "cvtv_rm_temp", "db_create"} -> "WritingVariant"
      [] pc \in {"civ_except", "ctv_except", "cvtv_except_temp",
                 "cvtv_except_variants", "um_except_temp",
                 "um_except_variants", "um_except_file"} -> "CleaningUp"
      [] pc = "done" -> "Done"
      [] pc = "failed" -> "Failed"

\* the files a cleanup of the request has gone through: deleted, found
\* absent, or tried and not deleted
Visited(r) ==
    Range(runs[r].removed) \cup Range(runs[r].skipped)
        \cup Range(runs[r].rm_failed)

\* C15 as stated, the part a finite run decides: a run is in Failed only
\* after CleaningUp has gone through every file the run tracked, and a run
\* in Failed returned an error.
C15_FailedOnlyAfterCleanup ==
    \A r \in active :
        RunState(r) = "Failed" =>
            /\ runs[r].result \in {"HTTP400", "HTTP500", "OSError"}
            /\ Range(Tracked(r)) \subseteq Visited(r)

\* the lowercased suffix, dot included, of each file name the requests
\* carry, written out
C16_ExpectedExtension(filename) ==
    CASE filename = <<"a", ".", "JPG">> -> <<".", "jpg">>
      [] filename = <<"arch", ".", "tar", ".", "PNG">> -> <<".", "png">>
      [] filename = <<"clip", ".", "mp4">> -> <<".", "mp4">>
      [] filename = <<"big", ".", "mp4">> -> <<".", "mp4">>
      [] filename = <<"doc", ".", "txt">> -> <<".", "txt">>
      [] OTHER -> << >>

\* the name is a stem without dots followed by the extension
HasExtension(name, ext) ==
    /\ Len(ext) <= Len(name)
    /\ SubSeq(name, Len(name) - Len(ext) + 1, Len(name)) = ext
    /\ "." \notin Range(SubSeq(name, 1, Len(name) - Len(ext)))

\* the names of the thumbnail files of a video run
ThumbnailNames(base_filename) ==
    { temp_thumbnail_path_of(base_filename) }
    \cup { thumbnail_variant_filename_of(base_filename, IMAGE_SIZES[k]) :
             k \in 1..Len(IMAGE_SIZES) }

\* the extension of a run is the lowercased suffix of the uploaded file
\* name, and it ends every file name of the run but the thumbnails of a
\* video, which end in .jpg
C16_ExtensionIsLowercasedSuffix ==
    \A r \in active :
        Started(r) =>
            /\ runs[r].file_extension
                   = C16_ExpectedExtension(runs[r].file.filename)
            /\ \A name \in Range(runs[r].written) :
                   IF name \in ThumbnailNames(runs[r].base_filename)
                   THEN HasExtension(name, <<".", "jpg">>)
                   ELSE HasExtension(name, runs[r].file_extension)

\* C16 as stated: the extension of a run is the lowercased suffix of the
\* uploaded file name, dot included, and an upload whose file name has no
\* suffix fails before any file is written.
C16_NoSuffixRejected ==
    /\ C16_ExtensionIsLowercasedSuffix
    /\ \A r \in active :
          runs[r].written # << >> => runs[r].file_extension # << >>

Abs(n) == IF n < 0 THEN 0 - n ELSE n

\* the scale s = min(maxW / w, maxH / h, 1) as a fraction <<numerator,
\* denominator>>
ScaleOf(w, h, maxW, maxH) ==
    IF maxW >= w /\ maxH >= h THEN <<1, 1>>
    ELSE IF maxW * h <= maxH * w THEN <<maxW, w>>
    ELSE <<maxH, h>>

\* C17: for every source size (w, h) and bounding box the resized image
\* is no larger than the box and no larger than the source in either
\* dimension, is at least 1 pixel wide and high, and each of its
\* dimensions is less than one pixel away from the source dimension
\* scaled by s = min(maxW / w, maxH / h, 1).
C17_FitsBoxKeepsAspect ==
    img # NoImage =>
        LET w == img.image_size[1]
            h == img.image_size[2]
            maxW == img.size[1]
            maxH == img.size[2]
            s == ScaleOf(w, h, maxW, maxH)
        IN  /\ img.out[1] <= maxW /\ img.out[2] <= maxH
            /\ img.out[1] <= w /\ img.out[2] <= h
            /\ img.out[1] >= 1 /\ img.out[2] >= 1
            /\ Abs(img.out[1] * s[2] - w * s[1]) < s[2]
            /\ Abs(img.out[2] * s[2] - h * s[1]) < s[2]

\* the case of C17: a 1920x1080 source was fitted into the 300x300 box,
\* its scaled height 168.75 became 169
C17_Witness ==
    /\ img.image_size = <<1920, 1080>>
    /\ img.size = <<300, 300>>
    /\ img.out = <<300, 169>>

\* round(num / den): the nearest integer; either neighbour when the
\* fraction is exactly one half
Rounds(num, den) ==
    LET f == num \div den
        r == num % den
    IN  IF 2 * r < den THEN {f}
        ELSE IF 2 * r > den THEN {f + 1}
        ELSE {f, f + 1}

\* C18 as stated: the size resize_image produces is round(w * s) x
\* round(h * s) with s = min(maxW / w, maxH / h, 1); a 4000x3000 source
\* with box (300, 300) gives 300x225.
C18_EqualsRoundedReference ==
    img # NoImage =>
        LET w == img.image_size[1]
            h == img.image_size[2]
            s == ScaleOf(w, h, img.size[1], img.size[2])
        IN  /\ img.out[1] \in Rounds(w * s[1], s[2])
            /\ img.out[2] \in Rounds(h * s[1], s[2])
            /\ (img.image_size = <<4000, 3000>> /\ img.size = <<300, 300>>)
                   => img.out = <<300, 225>>

\* C18, amended: the dimension the scale is taken from equals the
\* reference; the other dimension is the floor or the ceiling of the
\* scaled source dimension, and 1 where that is 0, so it is at most one
\* pixel away from the reference and equal to it when the scaled dimension
\* is a whole number of at least 1; a 4000x3000 source with box (300, 300)
\* gives 300x225.
C18_WithinOnePixelOfReference ==
    img # NoImage =>
        LET w == img.image_size[1]
            h == img.image_size[2]
            s == ScaleOf(w, h, img.size[1], img.size[2])
            Near(d, num, den) ==
                /\ d \in { Max(num \div den, 1),
                            Max((num + den - 1) \div den, 1) }
                /\ \E ref \in Rounds(num, den) : Abs(d - ref) <= 1
        IN  /\ s = <<1, 1>> => img.out = img.image_size
            /\ s = <<img.size[1], w>> => img.out[1] = img.size[1]
            /\ s = <<img.size[2], h>> => img.out[2] = img.size[2]
            /\ Near(img.out[1], w * s[1], s[2])
            /\ Near(img.out[2], h * s[1], s[2])
            /\ (img.image_size = <<4000, 3000>> /\ img.size = <<300, 300>>)
                   => img.out = <<300, 225>>

\* the case of C18: the 4000x3000 source in the 300x300 box
C18_Witness ==
    /\ img.image_size = <<4000, 3000>>
    /\ img.size = <<300, 300>>
    /\ img.out = <<300, 225>>

\* the frame index of a capture that opened and reported frames is the
\* floor of half the frame count, it lies within the video, and one frame
\* was read: 300 frames give index 150, one frame gives index 0
C19_MiddleFrameIndex(r) ==
    LET total_frames == runs[r].cap.total_frames
        index == runs[r].middle_frame
    IN  /\ 2 * index <= total_frames /\ total_frames < 2 * index + 2
        /\ index \in 0..(total_frames - 1)
        /\ runs[r].cap.reads = 1
        /\ total_frames = 300 => index = 150
        /\ total_frames = 1 => index = 0

\* C19 as stated: on a video that opens and reports totalFrames >= 1 the
\* frame index is floor(totalFrames / 2), which lies in 0..totalFrames-1,
\* exactly one frame is decoded and the extraction does not fail.
C19_MidFrameNeverFails ==
    \A r \in active :
        (runs[r].cap.isOpened /\ runs[r].cap.total_frames >= 1)
        => /\ C19_MiddleFrameIndex(r)
           /\ runs[r].fail_step # "cvtv_extract"

\* C19, amended: on a video that opens and reports totalFrames >= 1 the
\* frame index is floor(totalFrames / 2), which lies in 0..totalFrames-1,
\* and exactly one frame is read; the extraction fails exactly when that
\* read returns no frame.
C19_MidFrameFailsOnlyOnRead ==
    \A r \in active :
        (runs[r].cap.isOpened /\ runs[r].cap.total_frames >= 1)
        => /\ C19_MiddleFrameIndex(r)
           /\ runs[r].fail_step = "cvtv_extract" <=> ~ runs[r].cap.ret
           /\ runs[r].cap.ret => runs[r].pc = "cvtv_save_temp"

\* the case of C19: a video of 300 frames was opened and frame 150 read
C19_Witness ==
    \E r \in active :
        /\ runs[r].pc = "cvtv_save_temp"
        /\ runs[r].cap.isOpened /\ runs[r].cap.ret
        /\ runs[r].cap.total_frames = 300
        /\ runs[r].middle_frame = 150

\* C20: a video upload whose container cannot be opened, or which reports
\* zero frames, writes no thumbnail file, and when the request has failed
\* it returned an error, the stored video is removed and the upload
\* directory is as it was before the request (unless the removal of the
\* stored video itself raised).
C20_UnreadableVideoLeavesNothing ==
    \A r \in active :
        LET run == runs[r]
            video == video_filename_of(run.base_filename,
                                       run.file_extension)
        IN
        (/\ run.fail_step = "cvtv_extract"
         /\ ~ run.cap.isOpened \/ run.cap.total_frames = 0)
        => /\ Range(run.written) \cap ThumbnailNames(run.base_filename) = {}
           /\ (run.pc = "failed" /\ video \notin Range(run.rm_failed)) =>
                  /\ run.result = "HTTP500"
                  /\ video \in Range(run.removed)
                  /\ ~ Exists(disk, video)
                  /\ disk = disk0

\* the case of C20: a video that reported zero frames was stored, the
\* request failed and the stored video was removed
C20_Witness ==
    \E r \in active :
        /\ runs[r].pc = "failed"
        /\ runs[r].fail_step = "cvtv_extract"
        /\ runs[r].cap.isOpened /\ runs[r].cap.total_frames = 0
        /\ video_filename_of(runs[r].base_filename, runs[r].file_extension)
               \in Range(runs[r].removed)
        /\ runs[r].result = "HTTP500"

\* C21: when an upload whose variant generation succeeded has returned, and
\* no step of the behaviour failed by an outside cause (the database is
\* available), a media row of the product is persisted whose filename is the
\* primary filename and whose columns filename_thumb, filename_medium,
\* filename_large, filename_original hold the names of the run's variants.
C21_RowPersistedWithVariantNames ==
    \A r \in active :
        LET run == runs[r] IN
        (/\ run.pc \in {"done", "failed"}
         /\ run.filename_variants # None
         /\ faults = 0)
        => \E m \in db :
               /\ m.product_id = run.product_id
               /\ m.filename = run.filename
               /\ m.filename_thumb = Lookup(run.filename_variants, <<"thumb">>)
               /\ m.filename_medium =
                      Lookup(run.filename_variants, <<"medium">>)
               /\ m.filename_large = Lookup(run.filename_variants, <<"large">>)
               /\ m.filename_original =
                      Lookup(run.filename_variants, <<"original">>)

\* C26: when a call of upload_media that took a name has returned, with a
\* result or with an error, and no os.remove of the call raised, neither
\* {baseId}_temp{ext} nor {baseId}_temp_thumbnail.jpg is in the upload
\* directory.
C26_NoTemporaryFileSurvives ==
    \A r \in active :
        LET run == runs[r] IN
        (/\ Started(r)
         /\ run.pc \in {"done", "failed"}
         /\ run.rm_failed = << >>)
        => /\ ~ Exists(disk, run.temp_filename)
           /\ ~ Exists(disk, temp_thumbnail_path_of(run.base_filename))

\* C23: the encoder of a resized photo variant depends on the extension
\* alone: .jpg and .jpeg give JPEG with quality 85 and optimize, .webp gives
\* WEBP with quality 85 and optimize, .png gives PNG with optimize and no
\* quality, every other extension, the empty one included, gives JPEG with
\* quality 85 and optimize; the name of the variant ends with the extension
\* of the upload.
C23_EncoderChosenByExtension ==
    enc # NoEncode =>
        LET e == enc.file_extension
            n == enc.variant_filename
            JPEG == /\ enc.format = "JPEG" /\ enc.quality = {85}
                    /\ enc.optimize
        IN
        /\ e \in { <<".", "jpg">>, <<".", "jpeg">> } => JPEG
        /\ e = <<".", "webp">> =>
               enc.format = "WEBP" /\ enc.quality = {85} /\ enc.optimize
        /\ e = <<".", "png">> =>
               enc.format = "PNG" /\ enc.quality = {} /\ enc.optimize
        /\ e \notin { <<".", "jpg">>, <<".", "jpeg">>, <<".", "webp">>,
                      <<".", "png">> } => JPEG
        /\ e = Lower(Suffix(enc.original_filename))
        /\ SubSeq(n, Len(n) - Len(e) + 1, Len(n)) = e
        /\ SubSeq(n, 1, Len(n) - Len(e)) = <<"u1", "_">> \o enc.size_name

\* the case of C23: the medium variant of 'arch.tar.PNG' was encoded as PNG
\* under a name ending in .png
C23_Witness ==
    /\ enc.original_filename = <<"arch", ".", "tar", ".", "PNG">>
    /\ enc.size_name = <<"medium">>
    /\ enc.format = "PNG"
    /\ enc.variant_filename = <<"u1", "_", "medium", ".", "png">>

\* C24: for every source image and every format the extension selects, the
\* encoding of the variant does not fail because of the colour mode; the
\* image is converted before encoding exactly when the format cannot encode
\* its mode, and then to a mode without alpha that the format encodes.
C24_FlattenedExactlyWhenNotEncodable ==
    enc # NoEncode =>
        /\ enc.saved
        /\ enc.converted # enc.mode <=> ~ CanEncode(enc.format, enc.mode)
        /\ enc.converted # enc.mode =>
               /\ enc.converted \notin {"LA", "RGBA"}
               /\ CanEncode(enc.format, enc.converted)

\* the rows of the media table that carry a file name of the batch
BatchRows == {m \in db : m.filename \in Range(batch.names)}

\* C25: upload_multiple_media is all-or-nothing.  When it has raised after
\* validation, saving or record creation failed for a file, and no step of
\* its own clean-up failed, no file under a name of the batch is on disk and
\* no row of the batch is in the table; when it has returned, every file of
\* the batch is on disk with the bytes of its upload and has exactly one
\* row, whose sort_order is the file's position counted from 0.
C25_BatchAllOrNothing ==
    /\ (/\ batch.pc = "failed"
        /\ batch.fail_step # ""
        /\ ~ batch.rm_failed /\ ~ batch.delete_failed)
       => /\ \A k \in 1..Len(batch.names) : ~ Exists(disk, batch.names[k])
          /\ BatchRows = {}
    /\ batch.pc = "done"
       => /\ Len(batch.names) = Len(batch.files)
          /\ Cardinality(BatchRows) = Len(batch.files)
          /\ \A k \in 1..Len(batch.files) :
                /\ Exists(disk, batch.names[k])
                /\ disk[batch.names[k]] = batch.files[k].bytes
                /\ \E m \in BatchRows :
                      /\ m.filename = batch.names[k]
                      /\ m.sort_order = k - 1
                      /\ m.product_id = batch.product_id

\* the calls that have just returned
Returned == {c \in Threads : calls[c].pc = "returned"}

\* C22 (when): after delete_product has deleted a product, no file of an
\* asset whose row belonged to the product is in the upload directory.
C22_ProductDeletionRemovesFiles ==
    \A c \in Returned :
        (calls[c].kind = "delete_product" /\ calls[c].result = "deleted")
        => \A m \in calls[c].before :
               m.product_id = calls[c].product_id
               => AssetFiles(AssetOf(m)) \cap calls[c].files_after = {}

\* C22 (only when): a step that removes a file of an asset that has a row
\* in the table is a step that deletes a product.
C22_OnlyProductDeletionRemovesFiles ==
    [][ \A m \in db :
          (AssetFiles(AssetOf(m)) \cap DOMAIN disk)
              \subseteq DOMAIN disk' \/ products' # products ]_vars

\* C22: the files of a persisted asset are removed when, and only when,
\* the product that owns the asset is deleted.
C22_FilesRemovedExactlyWithProduct ==
    /\ [] C22_ProductDeletionRemovesFiles
    /\ C22_OnlyProductDeletionRemovesFiles

\* C27: when delete_media has returned that the media was deleted, none of
\* the files the upload of the asset created is in the upload directory:
\* the four variants of a photo, the stored video and the four thumbnails
\* of a video.
C27_DeleteMediaRemovesEveryFile ==
    \A c \in Returned :
        (calls[c].kind = "delete_media" /\ calls[c].result = "deleted")
        => AssetFiles(AssetOf(calls[c].existing)) \cap calls[c].files_after
               = {}

\* C28: the primary file of every row of the media table is on disk,
\* unless a call of delete_media for that row is still running.
C28_RowsReferToExistingFiles ==
    \A m \in db :
        (\A c \in Threads :
            ~ (/\ InFlight(calls[c]) /\ calls[c].kind = "delete_media"
               /\ calls[c].media_id = m.id))
        => Exists(disk, m.file_path)

\* C29: no two rows of the same product have the same sort_order.
C29_SortOrderUniquePerProduct ==
    \A m1, m2 \in db :
        (m1.product_id = m2.product_id /\ m1.sort_order = m2.sort_order)
        => m1.id = m2.id

\* the table after is the table before with the sort_order values of the
\* rows e and o exchanged and nothing else changed
C30_Exchanged(before, after, e, o) ==
    after = { [m EXCEPT !.sort_order =
                  IF m.id = e.id THEN o.sort_order
                  ELSE IF m.id = o.id THEN e.sort_order
                  ELSE m.sort_order] : m \in before }

\* the rows of the product of e with a smaller (move_up) or greater
\* (move_down) sort_order than e
C30_Beyond(rows, e, kind) ==
    { m \in rows : /\ m.product_id = e.product_id
                   /\ IF kind = "move_up" THEN m.sort_order < e.sort_order
                      ELSE m.sort_order > e.sort_order }

\* C30: a call of move_order_up (move_order_down) that ran alone and
\* returned the media has exchanged the sort_order of that media with the
\* one of a row of the same product that had the greatest smaller (least
\* greater) sort_order, and changed nothing else; when it returned 400
\* there was no such row and the table is unchanged; and a move_order_down
\* that follows a move_order_up of the same media leaves the table as it
\* was before the move_order_up.
C30_MoveExchangesAndIsUndone ==
    \A c \in Returned :
        LET call == calls[c]
            e == call.existing
            B == C30_Beyond(call.before, e, call.kind)
        IN
        (call.kind \in {"move_up", "move_down"} /\ call.alone)
        => /\ call.result = "media" =>
                \E o \in B :
                    /\ \A x \in B : IF call.kind = "move_up"
                                    THEN x.sort_order <= o.sort_order
                                    ELSE x.sort_order >= o.sort_order
                    /\ C30_Exchanged(call.before, call.after, e, o)
           /\ call.result = "HTTP400" =>
                B = {} /\ call.after = call.before
           /\ (e # NoRow /\ B = {}) => call.result = "HTTP400"
           /\ (/\ call.kind = "move_down" /\ call.result = "media"
               /\ call.prev.kind = "move_up"
               /\ call.prev.media_id = call.media_id)
              => call.after = call.prev.before

====
